---------------------------- MODULE Spec2Model ----------------------------
(***************************************************************************)
(* A model of the content-extraction subsystem of the crawler:             *)
(*   content_validator.py          ContentValidator (cleaning, truncation,  *)
(*                                 scoring, validation)                     *)
(*   content_extraction_models.py  ContentResult, ExtractionConfig          *)
(*   selector_strategies.py        the selector strategies and their manager*)
(*   content_extractor.py          ContentExtractor.extract_content         *)
(*                                                                         *)
(* A Python str is a sequence of one-character strings.  An ASCII          *)
(* character is itself ("a", " ", "<"); a character outside ASCII is named *)
(* by its code point, "uXXXX" ("uBA54" is U+BA54), so every phrase of the  *)
(* source is kept character by character.  Python floats are modelled as   *)
(* exact rationals <<numerator, denominator>>.                              *)
(***************************************************************************)
EXTENDS Integers, Sequences, FiniteSets, TLC

(***************************************************************************)
(* Characters and the character classes of Python's re module.             *)
(***************************************************************************)
Whitespace == {" ", "\t", "\n", "\r", "\f"}

Digits == {"0", "1", "2", "3", "4", "5", "6", "7", "8", "9"}

LowerCase ==
    <<"a", "b", "c", "d", "e", "f", "g", "h", "i", "j", "k", "l", "m",
      "n", "o", "p", "q", "r", "s", "t", "u", "v", "w", "x", "y", "z">>

UpperCase ==
    <<"A", "B", "C", "D", "E", "F", "G", "H", "I", "J", "K", "L", "M",
      "N", "O", "P", "Q", "R", "S", "T", "U", "V", "W", "X", "Y", "Z">>

Letters == {LowerCase[i] : i \in 1..26} \cup {UpperCase[i] : i \in 1..26}

\* The Hangul syllables (U+AC00..U+D7A3) that occur in the source's phrases.
Hangul ==
    {
      "uAC00", "uAC1C", "uAC80", "uAC8C", "uACE0", "uACF5", "uAD11", "uAD8C",
      "uADF8", "uADFC", "uAE00", "uAE30", "uB0B4", "uB274", "uB2C8", "uB2E4",
      "uB2F5", "uB300", "uB313", "uB354", "uB3D9", "uB41C", "uB4F1", "uB514",
      "uB529", "uB7A9", "uB824", "uB85C", "uB85D", "uB958", "uB97C", "uB9CC",
      "uBA54", "uBAA9", "uBB3C", "uBCA4", "uBCF4", "uC0AD", "uC0C8", "uC0C9",
      "uC124", "uC131", "uC138", "uC1C4", "uC218", "uC2A4", "uC2B5", "uC2DC",
      "uC2E0", "uC4F0", "uC544", "uC5C6", "uC5EC", "uC624", "uC694", "uC6A9",
      "uC6D0", "uC720", "uC73C", "uC744", "uC74C", "uC774", "uC778", "uC785",
      "uC790", "uC791", "uC7A0", "uC7A5", "uC800", "uC804", "uC811", "uC815",
      "uC81C", "uC88B", "uC8FC", "uC911", "uC9C0", "uCC38", "uCC3D", "uCC3E",
      "uCC9C", "uCCB4", "uCD94", "uCE58", "uCE74", "uCFE0", "uD06C", "uD15C",
      "uD2B8", "uD310", "uD398", "uD3BC", "uD3F0", "uD544", "uD558", "uD55C",
      "uD560", "uD569", "uD648", "uD64D", "uD68C", "uD7A3"
    }

\* \w of a str pattern: letters of any script, digits and the underscore.
IsWordChar(c) == c \in Letters \cup Digits \cup Hangul \cup {"_"}

\* [^\w\s\uAC00-\uD7A3]
IsSymbolChar(c) == ~IsWordChar(c) /\ c \notin Whitespace /\ c \notin Hangul

\* [\uAC00-\uD7A3a-zA-Z0-9]
MeaningfulChars == Hangul \cup Letters \cup Digits

\* [\uAC00-\uD7A3a-zA-Z]
IsWordLetter(c) == c \in Hangul \cup Letters

\* Case folding of re.IGNORECASE.
FoldMap ==
    [c \in {UpperCase[i] : i \in 1..26} |->
        LowerCase[CHOOSE i \in 1..26 : UpperCase[i] = c]]

Fold(c) == IF c \in DOMAIN FoldMap THEN FoldMap[c] ELSE c

(***************************************************************************)
(* Regular expressions.  A pattern is a sequence of elements, each a       *)
(* character class with a quantifier: "1" (once), "?" (greedy optional),   *)
(* "*" (greedy star).  MatchEnd follows the backtracking order of re: the  *)
(* greedy alternative first, the shorter one when the rest fails.          *)
(***************************************************************************)
Lit(c) == [k |-> "lit", c |-> c, q |-> "1"]

Opt(c) == [k |-> "lit", c |-> c, q |-> "?"]

WsStar == [k |-> "ws", c |-> "", q |-> "*"]

DigitStar == [k |-> "digit", c |-> "", q |-> "*"]

Lits(chars) == [i \in 1..Len(chars) |-> Lit(chars[i])]

ElemMatches(e, c) ==
    CASE e.k = "lit" -> c = e.c
      [] e.k = "ws" -> c \in Whitespace
      [] e.k = "digit" -> c \in Digits
      [] e.k = "sym" -> IsSymbolChar(c)
      [] e.k = "notangle" -> c \notin {"<", ">"}

\* The index after the match of pat[k..] that starts at s[i]; 0 if there is none.
RECURSIVE MatchEnd(_, _, _, _)
MatchEnd(s, i, pat, k) ==
    IF k > Len(pat) THEN i
    ELSE LET e == pat[k]
             here == i <= Len(s) /\ ElemMatches(e, s[i])
         IN  IF e.q = "1"
             THEN IF here THEN MatchEnd(s, i + 1, pat, k + 1) ELSE 0
             ELSE LET taken == IF ~here THEN 0
                               ELSE IF e.q = "?" THEN MatchEnd(s, i + 1, pat, k + 1)
                               ELSE MatchEnd(s, i + 1, pat, k)
                  IN  IF taken # 0 THEN taken ELSE MatchEnd(s, i, pat, k + 1)

PatternMatchEnd(s, i, pat) == MatchEnd(s, i, pat, 1)

\* (\w+)\s*\1\s*\1+ under re.IGNORECASE: the longest group first, then the
\* longest first gap, then the longest second gap, then every further repeat.
WordRun(s, i) ==
    IF i > Len(s) \/ ~IsWordChar(s[i]) THEN 0
    ELSE LET stops == {j \in i..Len(s) : ~IsWordChar(s[j])}
         IN  IF stops = {} THEN Len(s) - i + 1
             ELSE (CHOOSE j \in stops : \A j2 \in stops : j <= j2) - i

WsRun(s, i) ==
    IF i > Len(s) \/ s[i] \notin Whitespace THEN 0
    ELSE LET stops == {j \in i..Len(s) : s[j] \notin Whitespace}
         IN  IF stops = {} THEN Len(s) - i + 1
             ELSE (CHOOSE j \in stops : \A j2 \in stops : j <= j2) - i

GroupAt(s, i, g, p) ==
    /\ p + g - 1 <= Len(s)
    /\ \A d \in 0..(g - 1) : s[p + d] = s[i + d] \/ Fold(s[p + d]) = Fold(s[i + d])

RECURSIVE RepeatsEnd(_, _, _, _)
RepeatsEnd(s, i, g, p) ==
    IF GroupAt(s, i, g, p) THEN RepeatsEnd(s, i, g, p + g) ELSE p

MaxOf(S) == CHOOSE x \in S : \A y \in S : y <= x

RepeatedWordMatchEnd(s, i) ==
    LET run == WordRun(s, i)
        \* the first gaps after a group of g characters that a copy follows
        SecondCopy(g) == {a \in 0..WsRun(s, i + g) : GroupAt(s, i, g, i + g + a)}
        \* the second gaps after that copy that a further copy follows
        ThirdCopy(g, a) ==
            {b \in 0..WsRun(s, i + 2 * g + a) : GroupAt(s, i, g, i + 2 * g + a + b)}
        groups == {g \in 1..run : \E a \in SecondCopy(g) : ThirdCopy(g, a) # {}}
    IN  IF groups = {} THEN 0
        ELSE LET g == MaxOf(groups)
                 a == MaxOf({x \in SecondCopy(g) : ThirdCopy(g, x) # {}})
                 b == MaxOf(ThirdCopy(g, a))
             IN  RepeatsEnd(s, i, g, i + 2 * g + a + b)

\* The two patterns of the source that are not plain element sequences.
SymbolRunPattern ==
    <<[k |-> "sym", c |-> "", q |-> "1"], [k |-> "sym", c |-> "", q |-> "1"],
      [k |-> "sym", c |-> "", q |-> "1"], [k |-> "sym", c |-> "", q |-> "*"]>>

RepeatedWordPattern == <<[k |-> "backref", c |-> "", q |-> "1"]>>

AnyMatchEnd(s, i, pat) ==
    IF pat = RepeatedWordPattern THEN RepeatedWordMatchEnd(s, i)
    ELSE PatternMatchEnd(s, i, pat)

MinOf(S) == CHOOSE x \in S : \A y \in S : x <= y

\* re.sub(pat, rep, s): the leftmost matches, not overlapping, replaced by rep.
\* From i on: the text up to the first index a match starts at, rep, and the
\* same from the end of that match on.
RECURSIVE SubFrom(_, _, _, _)
SubFrom(s, i, pat, rep) ==
    LET starts == {j \in i..Len(s) : AnyMatchEnd(s, j, pat) > j}
    IN  IF starts = {} THEN SubSeq(s, i, Len(s))
        ELSE SubSeq(s, i, MinOf(starts) - 1) \o rep
                 \o SubFrom(s, AnyMatchEnd(s, MinOf(starts), pat), pat, rep)

ReSub(pat, rep, s) == SubFrom(s, 1, pat, rep)

\* str.replace(old, new)
StrReplace(s, old, new) == SubFrom(s, 1, Lits(old), new)

\* The characters of a string.
Range(s) == {s[i] : i \in 1..Len(s)}

\* A pattern that starts with a character taken exactly once matches nowhere in
\* a string without that character.
MayMatch(pat, present) == pat[1].k # "lit" \/ pat[1].q # "1" \/ pat[1].c \in present

\* str.strip() and str.rstrip()
RECURSIVE RStrip(_)
RStrip(s) ==
    IF s # <<>> /\ s[Len(s)] \in Whitespace THEN RStrip(SubSeq(s, 1, Len(s) - 1)) ELSE s

RECURSIVE LStrip(_)
LStrip(s) == IF s # <<>> /\ s[1] \in Whitespace THEN LStrip(Tail(s)) ELSE s

Strip(s) == RStrip(LStrip(s))

\* str.rfind(c) as a 0-based index, -1 if c does not occur.
RFind(s, c) ==
    LET at == {i \in 1..Len(s) : s[i] = c}
    IN  IF at = {} THEN -1 ELSE (CHOOSE i \in at : \A j \in at : j <= i) - 1

\* str.find(c) as a 0-based index, -1 if c does not occur.
Find(s, c) ==
    LET at == {i \in 1..Len(s) : s[i] = c}
    IN  IF at = {} THEN -1 ELSE (CHOOSE i \in at : \A j \in at : i <= j) - 1

\* s[:n] for n >= 0
Prefix(s, n) == SubSeq(s, 1, IF n < Len(s) THEN n ELSE Len(s))

(***************************************************************************)
(* Exact rationals <<n, d>>, d > 0, kept in lowest terms.                  *)
(***************************************************************************)
RECURSIVE Gcd(_, _)
Gcd(a, b) == IF b = 0 THEN a ELSE Gcd(b, a % b)

Abs(a) == IF a < 0 THEN -a ELSE a

Rat(n, d) == LET g == Gcd(Abs(n), d) IN <<n \div g, d \div g>>

RAdd(x, y) == Rat(x[1] * y[2] + y[1] * x[2], x[2] * y[2])

RMul(x, y) == Rat(x[1] * y[1], x[2] * y[2])

RLeq(x, y) == x[1] * y[2] <= y[1] * x[2]

RLess(x, y) == x[1] * y[2] < y[1] * x[2]

RMin(x, y) == IF RLeq(x, y) THEN x ELSE y

(***************************************************************************)
(* ContentValidator (content_validator.py).                                *)
(***************************************************************************)
\* _get_ui_text_patterns.  The patterns hold no cased character, so
\* re.IGNORECASE changes nothing in them; re.MULTILINE changes nothing either
\* (no ^ or $).
ui_text_patterns ==
    <<
      (* \uB85C\uADF8\uC778\s*\uD558\uC138\uC694? *)
      <<Lit("uB85C"), Lit("uADF8"), Lit("uC778"), WsStar, Lit("uD558"), Lit("uC138"), Opt("uC694")>>,
      (* \uB85C\uADF8\uC778\uC774?\s*\uD544\uC694\uD569\uB2C8\uB2E4? *)
      <<Lit("uB85C"), Lit("uADF8"), Lit("uC778"), Opt("uC774"), WsStar, Lit("uD544"), Lit("uC694"), Lit("uD569"), Lit("uB2C8"), Opt("uB2E4")>>,
      (* \uD68C\uC6D0\uAC00\uC785 *)
      <<Lit("uD68C"), Lit("uC6D0"), Lit("uAC00"), Lit("uC785")>>,
      (* \uC544\uC774\uB514\s*\uC800\uC7A5 *)
      <<Lit("uC544"), Lit("uC774"), Lit("uB514"), WsStar, Lit("uC800"), Lit("uC7A5")>>,
      (* \uBA54\uB274 *)
      <<Lit("uBA54"), Lit("uB274")>>,
      (* \uD648\uC73C?\uB85C *)
      <<Lit("uD648"), Opt("uC73C"), Lit("uB85C")>>,
      (* \uBAA9\uB85D\uC73C?\uB85C *)
      <<Lit("uBAA9"), Lit("uB85D"), Opt("uC73C"), Lit("uB85C")>>,
      (* \uC774\uC804\s*\uD398\uC774\uC9C0 *)
      <<Lit("uC774"), Lit("uC804"), WsStar, Lit("uD398"), Lit("uC774"), Lit("uC9C0")>>,
      (* \uB2E4\uC74C\s*\uD398\uC774\uC9C0 *)
      <<Lit("uB2E4"), Lit("uC74C"), WsStar, Lit("uD398"), Lit("uC774"), Lit("uC9C0")>>,
      (* \uD398\uC774\uC9C0\s*\uC774\uB3D9 *)
      <<Lit("uD398"), Lit("uC774"), Lit("uC9C0"), WsStar, Lit("uC774"), Lit("uB3D9")>>,
      (* \uB313\uAE00\s*\d*\s*\uAC1C? *)
      <<Lit("uB313"), Lit("uAE00"), WsStar, DigitStar, WsStar, Opt("uAC1C")>>,
      (* \uB313\uAE00\s*\uC4F0\uAE30 *)
      <<Lit("uB313"), Lit("uAE00"), WsStar, Lit("uC4F0"), Lit("uAE30")>>,
      (* \uB313\uAE00\s*\uB4F1\uB85D *)
      <<Lit("uB313"), Lit("uAE00"), WsStar, Lit("uB4F1"), Lit("uB85D")>>,
      (* \uB2F5\uAE00 *)
      <<Lit("uB2F5"), Lit("uAE00")>>,
      (* \uB300\uB313\uAE00 *)
      <<Lit("uB300"), Lit("uB313"), Lit("uAE00")>>,
      (* \uACF5\uC720\uD558\uAE30 *)
      <<Lit("uACF5"), Lit("uC720"), Lit("uD558"), Lit("uAE30")>>,
      (* \uC2A4\uD06C\uB7A9 *)
      <<Lit("uC2A4"), Lit("uD06C"), Lit("uB7A9")>>,
      (* \uC88B\uC544\uC694\s*\d* *)
      <<Lit("uC88B"), Lit("uC544"), Lit("uC694"), WsStar, DigitStar>>,
      (* \uCD94\uCC9C\s*\d* *)
      <<Lit("uCD94"), Lit("uCC9C"), WsStar, DigitStar>>,
      (* \uC2E0\uACE0\uD558\uAE30 *)
      <<Lit("uC2E0"), Lit("uACE0"), Lit("uD558"), Lit("uAE30")>>,
      (* \uC218\uC815\uD558\uAE30 *)
      <<Lit("uC218"), Lit("uC815"), Lit("uD558"), Lit("uAE30")>>,
      (* \uC0AD\uC81C\uD558\uAE30 *)
      <<Lit("uC0AD"), Lit("uC81C"), Lit("uD558"), Lit("uAE30")>>,
      (* \uCE74\uD398\s*\uD648 *)
      <<Lit("uCE74"), Lit("uD398"), WsStar, Lit("uD648")>>,
      (* \uAC8C\uC2DC\uD310 *)
      <<Lit("uAC8C"), Lit("uC2DC"), Lit("uD310")>>,
      (* \uAC80\uC0C9 *)
      <<Lit("uAC80"), Lit("uC0C9")>>,
      (* \uC804\uCCB4\s*\uBA54\uB274 *)
      <<Lit("uC804"), Lit("uCCB4"), WsStar, Lit("uBA54"), Lit("uB274")>>,
      (* \uB354\uBCF4\uAE30 *)
      <<Lit("uB354"), Lit("uBCF4"), Lit("uAE30")>>,
      (* \uC811\uAE30 *)
      <<Lit("uC811"), Lit("uAE30")>>,
      (* \uD3BC\uCE58\uAE30 *)
      <<Lit("uD3BC"), Lit("uCE58"), Lit("uAE30")>>,
      (* \uC0C8\uCC3D *)
      <<Lit("uC0C8"), Lit("uCC3D")>>,
      (* \uC778\uC1C4 *)
      <<Lit("uC778"), Lit("uC1C4")>>,
      (* \uAE00\uC790\s*\uD06C\uAE30 *)
      <<Lit("uAE00"), Lit("uC790"), WsStar, Lit("uD06C"), Lit("uAE30")>>,
      (* \uD3F0\uD2B8\s*\uC124\uC815 *)
      <<Lit("uD3F0"), Lit("uD2B8"), WsStar, Lit("uC124"), Lit("uC815")>>
    >>

\* _get_meaningless_patterns
meaningless_patterns ==
    <<
      (* [^\w\s\uAC00-\uD7A3]{3,} *)
      SymbolRunPattern,
      (* (\w+)\s*\1\s*\1+ *)
      RepeatedWordPattern,
      (* \uAD11\uACE0 *)
      <<Lit("uAD11"), Lit("uACE0")>>,
      (* \uD64D\uBCF4 *)
      <<Lit("uD64D"), Lit("uBCF4")>>,
      (* \uC774\uBCA4\uD2B8\s*\uCC38\uC5EC *)
      <<Lit("uC774"), Lit("uBCA4"), Lit("uD2B8"), WsStar, Lit("uCC38"), Lit("uC5EC")>>,
      (* \uD560\uC778\s*\uCFE0\uD3F0 *)
      <<Lit("uD560"), Lit("uC778"), WsStar, Lit("uCFE0"), Lit("uD3F0")>>,
      (* \uC2DC\uC2A4\uD15C\s*\uC624\uB958 *)
      <<Lit("uC2DC"), Lit("uC2A4"), Lit("uD15C"), WsStar, Lit("uC624"), Lit("uB958")>>,
      (* \uD398\uC774\uC9C0\uB97C?\s*\uCC3E\uC744\s*\uC218\s*\uC5C6\uC2B5\uB2C8\uB2E4 *)
      <<Lit("uD398"), Lit("uC774"), Lit("uC9C0"), Opt("uB97C"), WsStar, Lit("uCC3E"), Lit("uC744"), WsStar, Lit("uC218"), WsStar, Lit("uC5C6"), Lit("uC2B5"), Lit("uB2C8"), Lit("uB2E4")>>,
      (* \uC811\uADFC\s*\uAD8C\uD55C\uC774?\s*\uC5C6\uC2B5\uB2C8\uB2E4 *)
      <<Lit("uC811"), Lit("uADFC"), WsStar, Lit("uAD8C"), Lit("uD55C"), Opt("uC774"), WsStar, Lit("uC5C6"), Lit("uC2B5"), Lit("uB2C8"), Lit("uB2E4")>>,
      (* \uB85C\uB529\s*\uC911 *)
      <<Lit("uB85C"), Lit("uB529"), WsStar, Lit("uC911")>>,
      (* \uC7A0\uC2DC\uB9CC\s*\uAE30\uB2E4\uB824\s*\uC8FC\uC138\uC694 *)
      <<Lit("uC7A0"), Lit("uC2DC"), Lit("uB9CC"), WsStar, Lit("uAE30"), Lit("uB2E4"), Lit("uB824"), WsStar, Lit("uC8FC"), Lit("uC138"), Lit("uC694")>>,
      (* \uB0B4\uC6A9\uC774?\s*\uC5C6\uC2B5\uB2C8\uB2E4 *)
      <<Lit("uB0B4"), Lit("uC6A9"), Opt("uC774"), WsStar, Lit("uC5C6"), Lit("uC2B5"), Lit("uB2C8"), Lit("uB2E4")>>,
      (* \uAC8C\uC2DC\uBB3C\uC774?\s*\uC5C6\uC2B5\uB2C8\uB2E4 *)
      <<Lit("uAC8C"), Lit("uC2DC"), Lit("uBB3C"), Opt("uC774"), WsStar, Lit("uC5C6"), Lit("uC2B5"), Lit("uB2C8"), Lit("uB2E4")>>,
      (* \uC791\uC131\uB41C\s*\uAE00\uC774?\s*\uC5C6\uC2B5\uB2C8\uB2E4 *)
      <<Lit("uC791"), Lit("uC131"), Lit("uB41C"), WsStar, Lit("uAE00"), Opt("uC774"), WsStar, Lit("uC5C6"), Lit("uC2B5"), Lit("uB2C8"), Lit("uB2E4")>>
    >>

\* _remove_ui_text / _remove_meaningless_patterns: one re.sub per pattern, in
\* list order, each on the result of the one before.
RECURSIVE RemoveEach(_, _, _)
RemoveEach(content, patterns, n) ==
    IF n > Len(patterns) THEN content
    ELSE LET next == ReSub(patterns[n], <<>>, content)
         IN  IF next = content THEN RemoveEach(content, patterns, n + 1)
             ELSE RemoveEach(next, patterns, n + 1)

\* A removal adds no character, so the patterns whose first character the
\* content does not hold are skipped: they match at no stage.
RemoveAll(content, patterns) ==
    LET present == Range(content)
        Applies(pat) == MayMatch(pat, present)
    IN  RemoveEach(content, SelectSeq(patterns, Applies), 1)

remove_ui_text(content) == RemoveAll(content, ui_text_patterns)

remove_meaningless_patterns(content) == RemoveAll(content, meaningless_patterns)

\* _normalize_whitespace: \s+ -> " ", then \n\s*\n\s*\n+ -> "\n\n".
WsPlus == <<[k |-> "ws", c |-> "", q |-> "1"], WsStar>>

BlankLines ==
    <<Lit("\n"), WsStar, Lit("\n"), WsStar, Lit("\n"), [k |-> "lit", c |-> "\n", q |-> "*"]>>

normalize_whitespace(content) ==
    ReSub(BlankLines, <<"\n", "\n">>, ReSub(WsPlus, <<" ">>, content))

\* _remove_html_tags: <[^<>]*> removed, then the six entities replaced in
\* the dict's order.
HtmlTag == <<Lit("<"), [k |-> "notangle", c |-> "", q |-> "*"], Lit(">")>>

html_entities ==
    << <<(<<"&", "a", "m", "p", ";">>), (<<"&">>)>>,
       <<(<<"&", "l", "t", ";">>), (<<"<">>)>>,
       <<(<<"&", "g", "t", ";">>), (<<">">>)>>,
       <<(<<"&", "q", "u", "o", "t", ";">>), (<<"\"">>)>>,
       <<(<<"&", "#", "3", "9", ";">>), (<<"'">>)>>,
       <<(<<"&", "n", "b", "s", "p", ";">>), (<<" ">>)>> >>

RECURSIVE ReplaceEntities(_, _)
ReplaceEntities(content, n) ==
    IF n > Len(html_entities) \/ "&" \notin Range(content) THEN content
    ELSE LET next == StrReplace(content, html_entities[n][1], html_entities[n][2])
         IN  IF next = content THEN ReplaceEntities(content, n + 1)
             ELSE ReplaceEntities(next, n + 1)

remove_html_tags(content) ==
    LET stripped == IF "<" \in Range(content) THEN ReSub(HtmlTag, <<>>, content)
                    ELSE content
    IN  ReplaceEntities(stripped, 1)

\* clean_content
clean_content(content) ==
    IF content = <<>> THEN <<>>
    ELSE Strip(normalize_whitespace(remove_meaningless_patterns(
             remove_ui_text(remove_html_tags(Strip(content))))))

\* The characters reserved for "..." by _truncate_content.
EllipsisLength == 3

Ellipsis == <<".", ".", ".">>

\* A cut that reserves no room for the ellipsis.
ActualMaxLengthUnreserved(max_length) == max_length

\* max_length - 3
ActualMaxLength(max_length) == max_length - EllipsisLength

sentence_endings == <<".", "!", "?", "u3002">>

\* The largest rfind over the sentence endings (-1 if none occurs).
LastSentenceEnd(truncated) ==
    LET found == {RFind(truncated, sentence_endings[n]) : n \in 1..Len(sentence_endings)}
    IN  CHOOSE p \in found \cup {-1} : \A p2 \in found \cup {-1} : p2 <= p

\* _truncate_content.  x > n * 0.7 is 10 * x > 7 * n and x > n * 0.8 is
\* 10 * x > 8 * n for every window n below 90; from 90 * 0.7 on, the float
\* product of some multiples of 10 falls below the exact one.
truncate_content(content, max_length) ==
    IF Len(content) <= max_length THEN content
    ELSE LET actual_max_length == ActualMaxLength(max_length)
         IN  IF actual_max_length <= 0 THEN Ellipsis
             ELSE LET truncated == Prefix(content, actual_max_length)
                      last_sentence_end == LastSentenceEnd(truncated)
                      last_space == RFind(truncated, " ")
                  IN  IF 10 * last_sentence_end > 7 * actual_max_length
                      THEN Prefix(truncated, last_sentence_end + 1)
                      ELSE IF 10 * last_space > 8 * actual_max_length
                      THEN Prefix(truncated, last_space) \o Ellipsis
                      ELSE RStrip(truncated) \o Ellipsis

\* re.findall(r'[\uAC00-\uD7A3a-zA-Z]+', content): the maximal runs of letters.
WordStarts(content) ==
    {i \in 1..Len(content) :
        IsWordLetter(content[i]) /\ (i = 1 \/ ~IsWordLetter(content[i - 1]))}

WordAt(content, i) ==
    LET stops == {j \in i..Len(content) : ~IsWordLetter(content[j])}
        last == IF stops = {} THEN Len(content)
                ELSE (CHOOSE j \in stops : \A j2 \in stops : j <= j2) - 1
    IN  SubSeq(content, i, last)

CountChars(content, chars) == Cardinality({i \in 1..Len(content) : content[i] \in chars})

SentenceIndicators == {".", "!", "?", "u3002", ","}

SentenceEndings == {".", "!", "?", "u3002"}

\* _calculate_meaningful_content_ratio
calculate_meaningful_content_ratio(content) ==
    IF content = <<>> THEN <<0, 1>>
    ELSE LET total_chars == Len(content)
             meaningful_chars == CountChars(content, MeaningfulChars)
             base_ratio == Rat(meaningful_chars, total_chars)
             sentence_indicators == CountChars(content, SentenceIndicators)
             \* min(sentence_indicators / (total_chars / 50), 0.2)
             sentence_bonus == RMin(Rat(50 * sentence_indicators, total_chars), <<1, 5>>)
             starts == WordStarts(content)
             words == Cardinality(starts)
             unique_words == Cardinality({WordAt(content, i) : i \in starts})
             diversity_bonus ==
                 IF words = 0 THEN <<0, 1>>
                 ELSE RMin(RMul(Rat(unique_words, words), <<3, 10>>), <<3, 20>>)
         IN  RMin(RAdd(RAdd(base_ratio, sentence_bonus), diversity_bonus), <<1, 1>>)

\* len(content.split('\n\n')): one more than the occurrences of "\n\n", taken
\* from the left without overlap.
RECURSIVE CountBlankLines(_, _)
CountBlankLines(content, i) ==
    LET at == {j \in i..(Len(content) - 1) : content[j] = "\n" /\ content[j + 1] = "\n"}
    IN  IF at = {} THEN 0 ELSE 1 + CountBlankLines(content, MinOf(at) + 2)

ParagraphCount(content) == 1 + CountBlankLines(content, 1)

\* len(re.split(r'[.!?\u3002]', content))
SentenceCount(content) == 1 + CountChars(content, SentenceEndings)

\* _calculate_quality_score divides by optimal_length = 2 * min_content_length
\* whenever length >= min_content_length: a ZeroDivisionError when that is 0.
QualityScoreRaises(content, config) ==
    /\ Len(content) >= config.min_content_length
    /\ config.min_content_length * 2 = 0

\* A score that grants the 30% of the minimum length to every content.
QualityScoreAlwaysBased(content, min_length_valid, meaningful_ratio, config) ==
    RMin(RAdd(<<3, 10>>, RMul(meaningful_ratio, <<2, 5>>)), <<1, 1>>)

\* A score without the bonus of the length.
QualityScoreWithoutLength(content, min_length_valid, meaningful_ratio, config) ==
    LET base == IF min_length_valid THEN <<3, 10>> ELSE <<0, 1>>
        ratio_part == RMul(meaningful_ratio, <<2, 5>>)
        paragraph_part == IF ParagraphCount(content) > 1 THEN <<1, 20>> ELSE <<0, 1>>
        sentence_part == IF SentenceCount(content) > 2 THEN <<1, 20>> ELSE <<0, 1>>
    IN  RMin(RAdd(RAdd(RAdd(base, ratio_part), paragraph_part), sentence_part), <<1, 1>>)

\* _calculate_quality_score, where it returns.
calculate_quality_score(content, min_length_valid, meaningful_ratio, config) ==
    LET length == Len(content)
        base == IF min_length_valid THEN <<3, 10>> ELSE <<0, 1>>
        ratio_part == RMul(meaningful_ratio, <<2, 5>>)
        length_part ==
            IF length >= config.min_content_length
            THEN LET optimal_length == config.min_content_length * 2
                     length_ratio == RMin(Rat(length, optimal_length), <<1, 1>>)
                 IN  RMul(length_ratio, <<1, 5>>)
            ELSE <<0, 1>>
        paragraph_part == IF ParagraphCount(content) > 1 THEN <<1, 20>> ELSE <<0, 1>>
        sentence_part == IF SentenceCount(content) > 2 THEN <<1, 20>> ELSE <<0, 1>>
        score == RAdd(RAdd(RAdd(RAdd(base, ratio_part), length_part),
                           paragraph_part), sentence_part)
    IN  RMin(score, <<1, 1>>)

\* validate_content.  raised: the call ended in an exception instead of a
\* ValidationResult.  meaningful_content_ratio is the local of that name; the
\* other fields are those of the ValidationResult.  issues holds one tag per
\* message appended.
NoValidation ==
    [raised |-> FALSE, is_valid |-> FALSE, quality_score |-> <<0, 1>>,
     issues |-> <<>>, cleaned_content |-> <<>>, original_length |-> 0,
     cleaned_length |-> 0, meaningful_content_ratio |-> <<0, 1>>]

\* validate_content from the meaningful ratio on: the issues, the quality
\* score and the result.
ValidateMeasured(original_length, min_length_valid, too_long, cleaned_content, meaningful_content_ratio, config) ==
    LET issues1 == IF min_length_valid THEN <<>> ELSE <<"min_length">>
        issues2 == IF too_long THEN Append(issues1, "truncated") ELSE issues1
        issues3 == IF RLess(meaningful_content_ratio, <<3, 10>>)
                   THEN Append(issues2, "low_meaningful_ratio") ELSE issues2
    IN  IF QualityScoreRaises(cleaned_content, config)
        THEN [NoValidation EXCEPT !.raised = TRUE]
        ELSE LET quality_score == calculate_quality_score(
                     cleaned_content, min_length_valid, meaningful_content_ratio, config)
             IN  [raised |-> FALSE,
                  is_valid |-> /\ min_length_valid
                               /\ RLeq(<<3, 10>>, meaningful_content_ratio)
                               /\ RLeq(<<1, 2>>, quality_score),
                  quality_score |-> quality_score,
                  issues |-> issues3,
                  cleaned_content |-> cleaned_content,
                  original_length |-> original_length,
                  cleaned_length |-> Len(cleaned_content),
                  meaningful_content_ratio |-> meaningful_content_ratio]

\* validate_content from the cleaned text on: the minimum length is judged
\* on the cleaned text, and the truncation comes after.
ValidateCleaned(original_length, cleaned, config) ==
    LET too_long == Len(cleaned) > config.max_content_length
        cleaned_content ==
            IF too_long THEN truncate_content(cleaned, config.max_content_length)
            ELSE cleaned
    IN  ValidateMeasured(original_length, Len(cleaned) >= config.min_content_length,
                         too_long, cleaned_content,
                         calculate_meaningful_content_ratio(cleaned_content), config)

validate_content(content, config) ==
    ValidateCleaned(Len(content), clean_content(content), config)

\* The smallest of the positions that is positive, -1 if none is.
SmallestPositive(found) ==
    IF \A pos \in found : pos <= 0 THEN 0 - 1
    ELSE MinOf({pos \in found : pos > 0})

\* first_sentence_end of get_content_summary, over cleaned.find of each
\* sentence ending.
FirstSentenceEnd(cleaned) ==
    SmallestPositive({Find(cleaned, sentence_endings[n]) : n \in 1..Len(sentence_endings)})

\* The cut at the last space of the truncated text.  x > n * 0.8 is
\* 10 * x > 8 * n.
SummaryAtWord(truncated, last_space, max_summary_length) ==
    IF 10 * last_space > 8 * max_summary_length
    THEN Prefix(truncated, last_space) \o Ellipsis
    ELSE truncated \o Ellipsis

SummaryTruncated(truncated, max_summary_length) ==
    SummaryAtWord(truncated, RFind(truncated, " "), max_summary_length)

SummaryCut(cleaned, first_sentence_end, max_summary_length) ==
    IF first_sentence_end > 0 /\ first_sentence_end <= max_summary_length
    THEN Prefix(cleaned, first_sentence_end + 1)
    ELSE SummaryTruncated(Prefix(cleaned, max_summary_length), max_summary_length)

SummaryOfCleaned(cleaned, max_summary_length) ==
    IF Len(cleaned) <= max_summary_length THEN cleaned
    ELSE SummaryCut(cleaned, FirstSentenceEnd(cleaned), max_summary_length)

\* get_content_summary, for max_summary_length >= 0.
get_content_summary(content, max_summary_length) ==
    SummaryOfCleaned(clean_content(content), max_summary_length)

(***************************************************************************)
(* SelectorStrategy and SelectorStrategyManager.  A document is a sequence *)
(* of elements in document order; an element is matched by one selector    *)
(* and holds a text, its text nodes one per line.  A driver fault is named *)
(* by the strategy and the call it hits.                                    *)
(***************************************************************************)
\* Python's None, distinct from every string.
None == <<"None">>

\* str.split('\n')
RECURSIVE SplitLines(_)
SplitLines(s) ==
    LET p == Find(s, "\n")
    IN  IF p = -1 THEN <<s>>
        ELSE <<Prefix(s, p)>> \o SplitLines(SubSeq(s, p + 2, Len(s)))

\* sep.join(parts)
RECURSIVE Join(_, _)
Join(parts, sep) ==
    IF parts = <<>> THEN <<>>
    ELSE IF Len(parts) = 1 THEN parts[1]
    ELSE parts[1] \o sep \o Join(Tail(parts), sep)

\* sub in s
Contains(s, sub) ==
    \E i \in 1..(Len(s) - Len(sub) + 1) : SubSeq(s, i, i + Len(sub) - 1) = sub

ContainsAny(s, patterns) == \E n \in 1..Len(patterns) : Contains(s, patterns[n])

\* remove_patterns of _basic_content_cleaning
remove_patterns ==
    <<
      (* \uB85C\uADF8\uC778 *)
      <<"uB85C", "uADF8", "uC778">>,
      (* \uBA54\uB274 *)
      <<"uBA54", "uB274">>,
      (* \uBAA9\uB85D *)
      <<"uBAA9", "uB85D">>,
      (* \uC774\uC804\uAE00 *)
      <<"uC774", "uC804", "uAE00">>,
      (* \uB2E4\uC74C\uAE00 *)
      <<"uB2E4", "uC74C", "uAE00">>,
      (* \uCE74\uD398\uC571\uC73C\uB85C \uBCF4\uAE30 *)
      <<"uCE74", "uD398", "uC571", "uC73C", "uB85C", " ", "uBCF4", "uAE30">>,
      (* JavaScript *)
      <<"J", "a", "v", "a", "S", "c", "r", "i", "p", "t">>,
      (* \uB313\uAE00 *)
      <<"uB313", "uAE00">>,
      (* \uC2A4\uD06C\uB7A9 *)
      <<"uC2A4", "uD06C", "uB7A9">>,
      (* \uC2E0\uACE0 *)
      <<"uC2E0", "uACE0">>,
      (* \uC88B\uC544\uC694 *)
      <<"uC88B", "uC544", "uC694">>,
      (* \uB2F5\uAE00 *)
      <<"uB2F5", "uAE00">>,
      (* doesn't work properly *)
      <<"d", "o", "e", "s", "n", "'", "t", " ", "w", "o", "r", "k", " ", "p",
        "r", "o", "p", "e", "r", "l", "y">>,
      (* \uB0B4\uC6A9\uC744 \uBD88\uB7EC\uC62C \uC218 \uC5C6\uC2B5\uB2C8\uB2E4 *)
      <<"uB0B4", "uC6A9", "uC744", " ", "uBD88", "uB7EC", "uC62C", " ",
        "uC218", " ", "uC5C6", "uC2B5", "uB2C8", "uB2E4">>
    >>

\* invalid_patterns of _is_valid_content
invalid_patterns ==
    <<
      (* \uB0B4\uC6A9\uC744 \uBD88\uB7EC\uC62C \uC218 \uC5C6\uC2B5\uB2C8\uB2E4 *)
      <<"uB0B4", "uC6A9", "uC744", " ", "uBD88", "uB7EC", "uC62C", " ",
        "uC218", " ", "uC5C6", "uC2B5", "uB2C8", "uB2E4">>,
      (* JavaScript\uB97C \uD65C\uC131\uD654 *)
      <<"J", "a", "v", "a", "S", "c", "r", "i", "p", "t", "uB97C", " ",
        "uD65C", "uC131", "uD654">>,
      (* \uB85C\uADF8\uC778\uC774 \uD544\uC694\uD569\uB2C8\uB2E4 *)
      <<"uB85C", "uADF8", "uC778", "uC774", " ", "uD544", "uC694", "uD569",
        "uB2C8", "uB2E4">>,
      (* \uC811\uADFC \uAD8C\uD55C\uC774 \uC5C6\uC2B5\uB2C8\uB2E4 *)
      <<"uC811", "uADFC", " ", "uAD8C", "uD55C", "uC774", " ", "uC5C6",
        "uC2B5", "uB2C8", "uB2E4">>
    >>

SmartEditor3Strategy ==
    [name |-> "SmartEditor 3.0",
     extraction_method |-> "smart_editor_3",
     javascript |-> "se3",
     selectors |->
        <<".se-main-container", ".se-component-content", "div.se-module-text",
          ".se-text-paragraph", ".se-section-text", ".se-viewer",
          ".se-content">>]

\* A general editor that evaluates the script of SmartEditor 2.0 after its
\* selectors.
GeneralEditorWithScript ==
    [name |-> "uC77CuBC18 uC5D0uB514uD130",
     extraction_method |-> "general_editor",
     javascript |-> "se2",
     selectors |->
        <<"#content-area", "div[id=\"content-area\"]", ".content_view",
          ".board-content", ".content-body", ".post-content", ".article-body",
          ".view-content", ".main-content">>]

SmartEditor2Strategy ==
    [name |-> "SmartEditor 2.0",
     extraction_method |-> "smart_editor_2",
     javascript |-> "se2",
     selectors |->
        <<".ContentRenderer", "#postViewArea", ".NHN_Writeform_Main",
          ".post-view", ".post_ct", ".view-content", ".article-content">>]

GeneralEditorStrategy ==
    [name |-> "uC77CuBC18 uC5D0uB514uD130",
     extraction_method |-> "general_editor",
     javascript |-> "none",
     selectors |->
        <<"#content-area", "div[id=\"content-area\"]", ".content_view",
          ".board-content", ".content-body", ".post-content", ".article-body",
          ".view-content", ".main-content">>]

LegacyEditorStrategy ==
    [name |-> "uB808uAC70uC2DC uC5D0uB514uD130",
     extraction_method |-> "legacy_editor",
     javascript |-> "none",
     selectors |->
        <<"#tbody", "td[id=\"tbody\"]", ".post_content", ".view_content",
          ".article_viewer", ".board-view-content", "div.content_box",
          "table.board_view td", ".old-editor-content">>]

\* _basic_content_cleaning: the stripped lines longer than 5 characters that
\* hold no remove pattern.
basic_content_cleaning(content) ==
    IF content = <<>> THEN <<>>
    ELSE LET lines == SplitLines(content)
             stripped == [n \in 1..Len(lines) |-> Strip(lines[n])]
             Keeps(line) == Len(line) > 5 /\ ~ContainsAny(line, remove_patterns)
         IN  Join(SelectSeq(stripped, Keeps), <<"\n">>)

\* _is_valid_content
is_valid_content(content) ==
    /\ content # <<>>
    /\ Len(Strip(content)) >= 30
    /\ ~ContainsAny(content, invalid_patterns)

\* driver.find_elements(By.CSS_SELECTOR, selector)
find_elements(document, selector) ==
    SelectSeq(document, LAMBDA element : element.selector = selector)

\* _extract_text_from_element: the first of the four reads that returns text
\* gives element.text stripped; a fault of one read falls through to the next.
extract_text_from_element(element) == Strip(element.text)

\* One round of the selector loop of SelectorStrategy.extract_with_selectors:
\* the cleaned content the selector is accepted with, or None.
SelectorContent(document, selector) ==
    LET elements == find_elements(document, selector)
    IN  IF elements = <<>> THEN None
        ELSE LET content == extract_text_from_element(elements[1])
             IN  IF content # <<>> /\ Len(Strip(content)) > 20
                 THEN LET cleaned_content == basic_content_cleaning(content)
                      IN  IF is_valid_content(cleaned_content) THEN cleaned_content
                          ELSE None
                 ELSE None

\* SelectorStrategy.extract_with_selectors: the selectors in their order; a
\* fault in a round is caught and the loop continues.
RECURSIVE SelectorsFrom(_, _, _, _)
SelectorsFrom(strategy, n, document, faults) ==
    IF n > Len(strategy.selectors) THEN None
    ELSE IF <<strategy.name, strategy.selectors[n]>> \in faults
    THEN SelectorsFrom(strategy, n + 1, document, faults)
    ELSE LET content == SelectorContent(document, strategy.selectors[n])
         IN  IF content # None THEN content
             ELSE SelectorsFrom(strategy, n + 1, document, faults)

\* The script of SmartEditor3Strategy: the texts longer than 10 characters
\* inside the first .se-main-container, one per line.
SmartEditor3Script(document) ==
    LET elements == find_elements(document, ".se-main-container")
    IN  IF elements = <<>> THEN <<>>
        ELSE LET lines == SplitLines(elements[1].text)
                 trimmed == [n \in 1..Len(lines) |-> Strip(lines[n])]
                 texts == SelectSeq(trimmed, LAMBDA text : Len(text) > 10)
             IN  Join(texts, <<"\n">>)

\* The script of SmartEditor2Strategy: the text of the first of three
\* containers that holds more than 20 characters.
RECURSIVE SmartEditor2ScriptFrom(_, _, _)
SmartEditor2ScriptFrom(document, selectors, i) ==
    IF i > Len(selectors) THEN <<>>
    ELSE LET elements == find_elements(document, selectors[i])
             text == IF elements = <<>> THEN <<>> ELSE Strip(elements[1].text)
         IN  IF Len(text) > 20 THEN text
             ELSE SmartEditor2ScriptFrom(document, selectors, i + 1)

SmartEditor2Script(document) ==
    SmartEditor2ScriptFrom(
        document, <<".ContentRenderer", "#postViewArea", ".NHN_Writeform_Main">>, 1)

\* The JavaScript pass of the two SmartEditor strategies.
JavascriptContent(strategy, document) ==
    LET js_content == IF strategy.javascript = "se3" THEN SmartEditor3Script(document)
                      ELSE SmartEditor2Script(document)
    IN  IF js_content # <<>> /\ Len(Strip(js_content)) > 30
        THEN LET cleaned_content == basic_content_cleaning(js_content)
             IN  IF is_valid_content(cleaned_content) THEN cleaned_content ELSE None
        ELSE None

\* extract_with_selectors of a strategy: the selector loop, then for the two
\* SmartEditor strategies the JavaScript pass, whose fault is caught.
extract_with_selectors(strategy, document, faults) ==
    LET content == SelectorsFrom(strategy, 1, document, faults)
    IN  IF content # None THEN content
        ELSE IF strategy.javascript = "none" THEN None
        ELSE IF <<strategy.name, "execute_script">> \in faults THEN None
        ELSE JavascriptContent(strategy, document)

\* A manager that asks the general editor first.
GeneralFirstStrategies ==
    <<GeneralEditorStrategy, SmartEditor3Strategy, SmartEditor2Strategy,
      LegacyEditorStrategy>>

\* A manager without the legacy editor.
StrategiesWithoutLegacy ==
    <<SmartEditor3Strategy, SmartEditor2Strategy, GeneralEditorStrategy>>

\* SelectorStrategyManager.__init__: self.strategies
BuiltInStrategies ==
    <<SmartEditor3Strategy, SmartEditor2Strategy, GeneralEditorStrategy,
      LegacyEditorStrategy>>

SelectorAttempt(strategy, content) ==
    [selector |-> strategy.name,
     success |-> content # None,
     content_length |-> IF content # None THEN Len(content) ELSE 0,
     error_message |-> "None"]

\* extract_with_selectors of the strategy raises: the loop of line 60 runs
\* outside every try, and get_selectors() of a CustomCafeStrategy returns the
\* custom_selectors it was built with, which may be None.
SelectorsRaise(strategy) == strategy.selectors = None

\* str(e) of the TypeError of a loop over None.
NotIterable == "'NoneType' object is not iterable"

\* An attempt of the handler that leaves the message of the exception out.
FailedAttemptWithoutMessage(strategy, error_message) ==
    [selector |-> strategy.name, success |-> FALSE, content_length |-> 0,
     error_message |-> "None"]

\* Lines 418-427: the attempt recorded for a strategy that raised.
FailedAttempt(strategy, error_message) ==
    [selector |-> strategy.name, success |-> FALSE, content_length |-> 0,
     error_message |-> error_message]

\* SelectorStrategyManager.extract_with_strategies
RECURSIVE StrategiesFrom(_, _, _, _, _)
StrategiesFrom(strategies, n, document, faults, attempts) ==
    IF n > Len(strategies)
    THEN [content |-> None, strategy |-> "None", extraction_method |-> "None",
          attempts |-> attempts]
    ELSE IF SelectorsRaise(strategies[n])
    THEN StrategiesFrom(strategies, n + 1, document, faults,
                        Append(attempts, FailedAttempt(strategies[n], NotIterable)))
    ELSE LET strategy == strategies[n]
             content == extract_with_selectors(strategy, document, faults)
             tried == Append(attempts, SelectorAttempt(strategy, content))
         IN  IF content # None /\ content # <<>>
             THEN [content |-> content, strategy |-> strategy.name,
                   extraction_method |-> strategy.extraction_method,
                   attempts |-> tried]
             ELSE StrategiesFrom(strategies, n + 1, document, faults, tried)

extract_with_strategies(document, faults) ==
    StrategiesFrom(BuiltInStrategies, 1, document, faults, <<>>)

\* extract_with_strategies of a manager whose self.strategies is strategies.
manager_extract_with_strategies(strategies, document, faults) ==
    StrategiesFrom(strategies, 1, document, faults, <<>>)

\* CustomCafeStrategy of the example: the selectors given, no script of its
\* own, ExtractionMethod.FALLBACK.
CustomCafeStrategy(cafe_name, custom_selectors) ==
    [name |-> cafe_name \o " uCEE4uC2A4uD140",
     extraction_method |-> "fallback",
     javascript |-> "none",
     selectors |-> custom_selectors]

\* A manager that puts a new strategy last.
AppendCustomStrategy(strategies, strategy) == Append(strategies, strategy)

\* add_custom_strategy: self.strategies.insert(0, strategy)
add_custom_strategy(strategies, strategy) == <<strategy>> \o strategies

\* The walk of FallbackExtractor.extract_with_dom_traversal: the text nodes
\* longer than 10 characters in document order, joined by spaces.
TextNodes(document) ==
    LET AllLines[n \in 0..Len(document)] ==
            IF n = 0 THEN <<>> ELSE AllLines[n - 1] \o SplitLines(document[n].text)
        lines == AllLines[Len(document)]
        trimmed == [n \in 1..Len(lines) |-> Strip(lines[n])]
    IN  SelectSeq(trimmed, LAMBDA text : Len(text) > 10)

\* The walk without the threshold of line 158: any text it finds counts.
DomTraversalOfAnyLength(document, fault) ==
    IF fault THEN None
    ELSE LET content == Join(TextNodes(document), <<" ">>)
         IN  IF content # <<>> THEN Strip(content) ELSE None

\* FallbackExtractor.extract_with_dom_traversal, with or without a fault of
\* the script.
extract_with_dom_traversal(document, fault) ==
    IF fault THEN None
    ELSE LET content == Join(TextNodes(document), <<" ">>)
         IN  IF content # <<>> /\ Len(Strip(content)) > 50 THEN Strip(content)
             ELSE None

(***************************************************************************)
(* State.  Three groups of variables: a call of one ContentValidator        *)
(* method, the construction of one ContentResult, and one call of           *)
(* ContentExtractor.extract_content against a browser.  A specification     *)
(* moves one group and holds the others at rest.                            *)
(***************************************************************************)
VARIABLES
    vOp,         \* the validator method under call; "off" when not in use
    vContent,    \* the content argument
    vMaxLength,  \* the argument max_length or max_summary_length
    vConfig,     \* the validator's ExtractionConfig
    vCalls,      \* the calls completed
    vFirst,      \* what the first call returned
    vReturn,     \* what the last call returned
    rContent,       \* ContentResult(content=...)
    rSuccess,       \* ContentResult(success=...)
    rQualityScore,  \* ContentResult(quality_score=...)
    rOutcome,       \* "none" before the construction, then "built" or "raised"
    pc,               \* the position of extract_content
    window_handles,   \* driver.window_handles: the open windows, oldest first
    current_window,   \* the window the driver is focused on
    in_frame,         \* the driver is focused on the cafe_main iframe
    before,           \* the open windows and the focus when the call began
    page,             \* the document of the tab that window.open creates
    faults_left,      \* the driver faults still to come
    faulty,           \* the driver calls that faulted under the strategies
    enable_debug_screenshot,  \* config.enable_debug_screenshot
    original_window,  \* the local of that name
    debug_info,       \* the local of that name
    strategy_result,  \* what extract_with_strategies returned
    fallback_content, \* the local of that name
    error,            \* the exception on its way to the handler
    result,           \* what the call returned
    steps,            \* the steps taken so far, in order
    url,              \* the url argument of extract_content
    loading_complete, \* what wait_for_complete_loading returned to the call
    iframe_switched,  \* what wait_for_iframe_and_switch returned to the call
    cArgs,     \* the arguments of ExtractionConfig(...)
    cOutcome,  \* "none" before the construction, then "built" or "raised"
    cFields,   \* the fields of the instance that was built
    mStrategies,  \* SelectorStrategyManager.strategies
    mAdded,       \* the strategies given to add_custom_strategy, in order
    pOp,          \* the PreloadingManager method under call; "off" when not in use
    pPc,          \* the position inside the methods
    pStack,       \* the positions to return to, innermost first
    pReturn,      \* what the method that returned last returned
    pLog,         \* the methods that returned, in order
    pLazy,        \* config.enable_lazy_loading_trigger
    pMaxAttempts, \* the argument max_attempts
    pAttempt,     \* the local attempt of enhanced_wait_for_content
    pFaultsLeft,  \* the driver faults still to come
    pFrame,       \* the driver is focused on the cafe_main iframe
    pSwitch,      \* how the wait for the iframe ended
    pLoading,     \* how the waits of the running wait_for_complete_loading ended
    pGeometry,    \* the sizes of the document and the window, the lazy images
    pScroll,      \* window.pageXOffset and window.pageYOffset
    pEntry,       \* the scroll offset when trigger_lazy_loading was entered
    pInfo,        \* the local scroll_info
    pIndex,       \* the index of the running loop
    pTimeout,     \* the argument timeout of the running wait_for_complete_loading
    pElapsed,     \* time.time() - start_time of it, in seconds
    pSleeps,      \* the calls of time.sleep of the running loading or lazy call
    pScrolled,    \* the calls of window.scrollTo of the running lazy call
    pBackoffs,    \* the calls of time.sleep of enhanced_wait_for_content itself
    sStrategy,    \* the strategy whose extract_with_selectors is under call
    sDocument,    \* the document the driver is on
    sPc,          \* the position inside extract_with_selectors; "off" when not in use
    sIndex,       \* the index of the selector loop
    sFaultsLeft,  \* the driver faults still to come
    sCalls,       \* the driver calls of the strategy so far, in order
    sReturn,      \* what the call returned
    now,              \* datetime.now() of the process, in seconds
    screenshot_dir,   \* DebugCollector.screenshot_dir, the same in every pipeline
    tPc,              \* the position of each pipeline; <<>> when not in use
    filename_prefix,  \* the argument filename_prefix of each pipeline
    filepath,         \* the local filepath of each pipeline
    written           \* the files that save_screenshot wrote, in order

validatorVars == <<vOp, vContent, vMaxLength, vConfig, vCalls, vFirst, vReturn>>

resultVars == <<rContent, rSuccess, rQualityScore, rOutcome>>

\* What the two waits of the preloader returned to extract_content.
waited == <<loading_complete, iframe_switched>>

extractorVars ==
    <<pc, window_handles, current_window, in_frame, before, url, page, faults_left,
      faulty, enable_debug_screenshot, original_window, debug_info, strategy_result,
      fallback_content, error, result, steps, loading_complete, iframe_switched>>

configVars == <<cArgs, cOutcome, cFields>>

managerVars == <<mStrategies, mAdded>>

preloadVars ==
    <<pOp, pPc, pStack, pReturn, pLog, pLazy, pMaxAttempts, pAttempt, pFaultsLeft,
      pFrame, pSwitch, pLoading, pGeometry, pScroll, pEntry, pInfo, pIndex,
      pTimeout, pElapsed, pSleeps, pScrolled, pBackoffs>>

selectorVars == <<sStrategy, sDocument, sPc, sIndex, sFaultsLeft, sCalls, sReturn>>

pipelineVars == <<now, screenshot_dir, tPc, filename_prefix, filepath, written>>

notPipelineVars ==
    <<validatorVars, resultVars, extractorVars, configVars, managerVars, preloadVars,
      selectorVars>>

notSelectorVars ==
    <<validatorVars, resultVars, extractorVars, configVars, managerVars, preloadVars,
      pipelineVars>>

vars ==
    <<validatorVars, resultVars, extractorVars, configVars, managerVars, preloadVars,
      selectorVars, pipelineVars>>

\* ExtractionConfig's defaults.
DefaultMinContentLength == 30

DefaultMaxContentLength == 2000

DefaultConfig ==
    [min_content_length |-> DefaultMinContentLength,
     max_content_length |-> DefaultMaxContentLength]

\* ExtractionConfig.__post_init__, for the two fields the validator reads.
ConfigIsValid(config) ==
    /\ config.min_content_length >= 0
    /\ config.max_content_length > config.min_content_length

ValidatorOff ==
    /\ vOp = "off"
    /\ vContent = <<>>
    /\ vMaxLength = 0
    /\ vConfig = DefaultConfig
    /\ vCalls = 0
    /\ vFirst = <<>>
    /\ vReturn = <<>>

ResultOff ==
    /\ rContent = <<>>
    /\ rSuccess = FALSE
    /\ rQualityScore = <<0, 1>>
    /\ rOutcome = "off"

ExtractorOff ==
    /\ pc = "off"
    /\ window_handles = <<>>
    /\ current_window = 0
    /\ in_frame = FALSE
    /\ before = [window_handles |-> <<>>, current_window |-> 0]
    /\ page = <<>>
    /\ faults_left = 0
    /\ faulty = {}
    /\ enable_debug_screenshot = FALSE
    /\ original_window = 0
    /\ debug_info = <<>>
    /\ strategy_result = <<>>
    /\ fallback_content = <<>>
    /\ error = "None"
    /\ result = <<>>
    /\ steps = <<>>
    /\ url = <<>>
    /\ loading_complete = "None"
    /\ iframe_switched = "None"

NoConfigArgs ==
    [timeout_seconds |-> 0, min_content_length |-> 0, max_content_length |-> 0,
     retry_count |-> 0]

ConfigOff ==
    /\ cArgs = NoConfigArgs
    /\ cOutcome = "off"
    /\ cFields = NoConfigArgs

\* A manager as SelectorStrategyManager() builds it.
ManagerOff ==
    /\ mStrategies = BuiltInStrategies
    /\ mAdded = <<>>

NoGeometry ==
    [bodyHeight |-> 0, windowHeight |-> 0, bodyWidth |-> 0, windowWidth |-> 0,
     images |-> 0]

NoScrollInfo ==
    [originalX |-> 0, originalY |-> 0, bodyHeight |-> 0, windowHeight |-> 0,
     bodyWidth |-> 0, windowWidth |-> 0]

\* No call of a strategy is under way.
NoStrategyReturn == [raised |-> FALSE, content |-> None]

SelectorsOff ==
    /\ sStrategy = <<>>
    /\ sDocument = <<>>
    /\ sPc = "off"
    /\ sIndex = 0
    /\ sFaultsLeft = 0
    /\ sCalls = <<>>
    /\ sReturn = NoStrategyReturn

\* No pipeline is running.
PipelinesOff ==
    /\ now = 0
    /\ screenshot_dir = ""
    /\ tPc = <<>>
    /\ filename_prefix = <<>>
    /\ filepath = <<>>
    /\ written = <<>>

NoLoading == [ready |-> "none", error |-> FALSE, timeouts |-> {}]

PreloadOff ==
    /\ pOp = "off"
    /\ pPc = "off"
    /\ pStack = <<>>
    /\ pReturn = "unset"
    /\ pLog = <<>>
    /\ pLazy = FALSE
    /\ pMaxAttempts = 0
    /\ pAttempt = 0
    /\ pFaultsLeft = 0
    /\ pFrame = FALSE
    /\ pSwitch = "none"
    /\ pLoading = NoLoading
    /\ pGeometry = NoGeometry
    /\ pScroll = <<0, 0>>
    /\ pEntry = <<0, 0>>
    /\ pInfo = NoScrollInfo
    /\ pIndex = 0
    /\ pTimeout = 0
    /\ pElapsed = 0
    /\ pSleeps = <<>>
    /\ pScrolled = <<>>
    /\ pBackoffs = <<>>

\* All strings of at most n characters of alphabet.
StringsUpTo(alphabet, n) == UNION {[1..k -> alphabet] : k \in 0..n}

\* The concatenation of a sequence of strings.
RECURSIVE Concat(_)
Concat(parts) == IF parts = <<>> THEN <<>> ELSE Head(parts) \o Concat(Tail(parts))

(***************************************************************************)
(* _truncate_content, called twice: on a string, then on its own result.   *)
(***************************************************************************)
MaxTruncateLength == 7

TruncateAlphabet == {"a", " ", "."}

TruncateInputs == StringsUpTo(TruncateAlphabet, MaxTruncateLength)

TruncateLimits == (0 - 1)..(MaxTruncateLength + 1)

InitTruncate ==
    /\ vOp = "truncate_content"
    /\ vContent \in TruncateInputs
    /\ vMaxLength \in TruncateLimits
    /\ vConfig = DefaultConfig
    /\ vCalls = 0
    /\ vFirst = <<>>
    /\ vReturn = <<>>
    /\ ResultOff
    /\ ExtractorOff
    /\ ConfigOff
    /\ ManagerOff
    /\ PreloadOff
    /\ SelectorsOff
    /\ PipelinesOff

Truncate ==
    /\ vOp = "truncate_content"
    /\ vCalls = 0
    /\ vReturn' = truncate_content(vContent, vMaxLength)
    /\ vFirst' = vReturn'
    /\ vCalls' = 1
    /\ UNCHANGED <<vOp, vContent, vMaxLength, vConfig, resultVars, extractorVars, configVars, managerVars,
                   preloadVars, selectorVars, pipelineVars>>

TruncateAgain ==
    /\ vOp = "truncate_content"
    /\ vCalls = 1
    /\ vReturn' = truncate_content(vReturn, vMaxLength)
    /\ vCalls' = 2
    /\ UNCHANGED <<vOp, vContent, vMaxLength, vConfig, vFirst, resultVars, extractorVars, configVars, managerVars,
                   preloadVars, selectorVars, pipelineVars>>

NextTruncate == Truncate \/ TruncateAgain

SpecTruncate == InitTruncate /\ [][NextTruncate]_vars

\* C7: truncation is idempotent: truncating the result of _truncate_content
\* again with the same max_length returns that result unchanged.
TruncateIdempotent ==
    (vOp = "truncate_content" /\ vCalls = 2) => vReturn = vFirst

\* The second call has returned on a string the first call cut short within
\* a max_length that leaves room for text before the ellipsis.
TruncateIdempotentWitness ==
    /\ vOp = "truncate_content"
    /\ vCalls = 2
    /\ vMaxLength > EllipsisLength
    /\ Len(vContent) > vMaxLength
    /\ vFirst # vContent
    /\ Len(vFirst) > EllipsisLength
    /\ vReturn = vFirst

(***************************************************************************)
(* _truncate_content on long lines of letters with at most two marks, a    *)
(* mark being a space or a full stop.                                      *)
(***************************************************************************)
MaxCutLength == 14

CutMarks == {" ", "."}

CutInputs ==
    { [i \in 1..k |-> IF i = m[1] THEN m[2] ELSE IF i = m[3] THEN m[4] ELSE "a"] :
        k \in 0..MaxCutLength,
        m \in (0..MaxCutLength) \X CutMarks \X (0..MaxCutLength) \X CutMarks }

CutLimits == (0 - 1)..(MaxCutLength + 1)

InitCut ==
    /\ vOp = "truncate_content"
    /\ vContent \in CutInputs
    /\ vMaxLength \in CutLimits
    /\ vConfig = DefaultConfig
    /\ vCalls = 0
    /\ vFirst = <<>>
    /\ vReturn = <<>>
    /\ ResultOff
    /\ ExtractorOff
    /\ ConfigOff
    /\ ManagerOff
    /\ PreloadOff
    /\ SelectorsOff
    /\ PipelinesOff

NextCut == Truncate

SpecCut == InitCut /\ [][NextCut]_vars

\* The window of a cut: the first max_length - 3 characters.
Window(content, max_length) == Prefix(content, ActualMaxLength(max_length))

\* The mark at 0-based position pos is at or past the given tenths of w.
AtOrPast(pos, tenths, w) == pos >= 0 /\ 10 * pos >= tenths * w

\* The three cuts by their boundaries: after the last sentence ending at or
\* past 70% of the window, else at the last space at or past 80% of it with
\* the ellipsis, else the whole window with the ellipsis.
CutByBoundaries(window, w) ==
    IF AtOrPast(LastSentenceEnd(window), 7, w)
    THEN Prefix(window, LastSentenceEnd(window) + 1)
    ELSE IF AtOrPast(RFind(window, " "), 8, w)
    THEN Prefix(window, RFind(window, " ")) \o Ellipsis
    ELSE window \o Ellipsis

\* C31: for len(content) > max_length and the window w = max_length - 3,
\* _truncate_content returns the text up to and including the last sentence
\* ending of the window, without ellipsis, exactly when that ending is at or
\* past 70% of w; otherwise the text before the last space followed by "..."
\* exactly when that space is at or past 80% of w; otherwise the window
\* followed by "...".  (A mark at or past a boundary by its position is also
\* at or past it by the length of the text kept.)
CutAtBoundaries ==
    (/\ vOp = "truncate_content"
     /\ vCalls = 1
     /\ Len(vContent) > vMaxLength
     /\ ActualMaxLength(vMaxLength) > 0) =>
        vReturn = CutByBoundaries(Window(vContent, vMaxLength), ActualMaxLength(vMaxLength))

(***************************************************************************)
(* clean_content, called twice: on a string, then on its own result.       *)
(***************************************************************************)
MaxCleanTokens == 4

\* "a", "b", " ", "<", ">", "&lt;", "&amp;", U+BA54 U+B274 (a UI phrase),
\* U+AD11 U+ACE0 (an advertising phrase)
CleanVocabulary ==
    { <<"a">>, <<"b">>, <<" ">>, <<"<">>, <<">">>,
      <<"&", "l", "t", ";">>, <<"&", "a", "m", "p", ";">>,
      <<"uBA54", "uB274">>, <<"uAD11", "uACE0">> }

CleanInputs == {Concat(parts) : parts \in StringsUpTo(CleanVocabulary, MaxCleanTokens)}

InitClean ==
    /\ vOp = "clean_content"
    /\ vContent \in CleanInputs
    /\ vMaxLength = 0
    /\ vConfig = DefaultConfig
    /\ vCalls = 0
    /\ vFirst = <<>>
    /\ vReturn = <<>>
    /\ ResultOff
    /\ ExtractorOff
    /\ ConfigOff
    /\ ManagerOff
    /\ PreloadOff
    /\ SelectorsOff
    /\ PipelinesOff

Clean ==
    /\ vOp = "clean_content"
    /\ vCalls = 0
    /\ vReturn' = clean_content(vContent)
    /\ vFirst' = vReturn'
    /\ vCalls' = 1
    /\ UNCHANGED <<vOp, vContent, vMaxLength, vConfig, resultVars, extractorVars, configVars, managerVars,
                   preloadVars, selectorVars, pipelineVars>>

CleanAgain ==
    /\ vOp = "clean_content"
    /\ vCalls = 1
    /\ vReturn' = clean_content(vReturn)
    /\ vCalls' = 2
    /\ UNCHANGED <<vOp, vContent, vMaxLength, vConfig, vFirst, resultVars, extractorVars, configVars, managerVars,
                   preloadVars, selectorVars, pipelineVars>>

NextClean == Clean \/ CleanAgain

SpecClean == InitClean /\ [][NextClean]_vars

\* C8: cleaning is idempotent: clean_content applied to its own result
\* returns that result unchanged.
CleanIdempotent ==
    (vOp = "clean_content" /\ vCalls = 2) => vReturn = vFirst

(***************************************************************************)
(* validate_content under every valid configuration of small lengths.      *)
(***************************************************************************)
MaxValidateTokens == 3

MaxMinContentLength == 6

MaxLengthGap == 2

\* "abc", "abc.", "de", ".", " ", a blank line, U+BA54 U+B274 (a UI phrase),
\* "--" (two characters that are neither letters nor digits)
ValidateVocabulary ==
    { <<"a", "b", "c">>, <<"a", "b", "c", ".">>, <<"d", "e">>, <<".">>, <<" ">>,
      <<"\n", "\n">>, <<"uBA54", "uB274">>, <<"-", "-">> }

ValidateInputs ==
    {Concat(parts) : parts \in StringsUpTo(ValidateVocabulary, MaxValidateTokens)}

ValidateConfigs ==
    {[min_content_length |-> m, max_content_length |-> m + g] :
        m \in 0..MaxMinContentLength, g \in 1..MaxLengthGap}

InitValidate ==
    /\ vOp = "validate_content"
    /\ vContent \in ValidateInputs
    /\ vConfig \in ValidateConfigs
    /\ vMaxLength = 0
    /\ vCalls = 0
    /\ vFirst = <<>>
    /\ vReturn = NoValidation
    /\ ResultOff
    /\ ExtractorOff
    /\ ConfigOff
    /\ ManagerOff
    /\ PreloadOff
    /\ SelectorsOff
    /\ PipelinesOff

Validate ==
    /\ vOp = "validate_content"
    /\ vCalls = 0
    /\ vReturn' = validate_content(vContent, vConfig)
    /\ vFirst' = vReturn'
    /\ vCalls' = 1
    /\ UNCHANGED <<vOp, vContent, vMaxLength, vConfig, resultVars, extractorVars, configVars, managerVars,
                   preloadVars, selectorVars, pipelineVars>>

NextValidate == Validate

SpecValidate == InitValidate /\ [][NextValidate]_vars

Validated == vOp = "validate_content" /\ vCalls = 1

InUnitInterval(x) == RLeq(<<0, 1>>, x) /\ RLeq(x, <<1, 1>>)

IssueRecorded(tag) == \E n \in 1..Len(vReturn.issues) : vReturn.issues[n] = tag

\* C5: a ValidationResult has is_valid = TRUE exactly when its cleaned_length
\* is at least min_content_length, the meaningful ratio is at least 0.30 and
\* its quality_score is at least 0.50.
ValidityGate ==
    (Validated /\ ~vReturn.raised) =>
        (vReturn.is_valid <=>
            /\ vReturn.cleaned_length >= vConfig.min_content_length
            /\ RLeq(<<3, 10>>, vReturn.meaningful_content_ratio)
            /\ RLeq(<<1, 2>>, vReturn.quality_score))

\* C6: under every valid configuration validate_content returns a result
\* without raising, with the meaningful ratio and quality_score in [0, 1].
ValidateNeverRaises ==
    Validated =>
        /\ ConfigIsValid(vConfig)
        /\ ~vReturn.raised
        /\ InUnitInterval(vReturn.meaningful_content_ratio)
        /\ InUnitInterval(vReturn.quality_score)

\* C9: when the cleaned text is longer than max_content_length the returned
\* cleaned_content is at most max_content_length long and a truncation issue
\* is recorded; otherwise the cleaned text is returned as it is and no
\* truncation issue is recorded.
TruncationWithinMaxLength ==
    (Validated /\ ~vReturn.raised) =>
        IF Len(clean_content(vContent)) > vConfig.max_content_length
        THEN /\ vReturn.cleaned_length <= vConfig.max_content_length
             /\ vReturn.cleaned_length = Len(vReturn.cleaned_content)
             /\ IssueRecorded("truncated")
        ELSE /\ vReturn.cleaned_content = clean_content(vContent)
             /\ ~IssueRecorded("truncated")

ScoreWithBonuses(content, min_length_valid, meaningful_ratio, config, paragraph_bonus, sentence_bonus) ==
    LET base == IF min_length_valid THEN <<3, 10>> ELSE <<0, 1>>
        ratio_part == RMul(meaningful_ratio, <<2, 5>>)
        length_part ==
            IF Len(content) >= config.min_content_length
            THEN RMul(RMin(Rat(Len(content), config.min_content_length * 2), <<1, 1>>),
                      <<1, 5>>)
            ELSE <<0, 1>>
        paragraph_part == IF paragraph_bonus THEN <<1, 20>> ELSE <<0, 1>>
        sentence_part == IF sentence_bonus THEN <<1, 20>> ELSE <<0, 1>>
    IN  RMin(RAdd(RAdd(RAdd(RAdd(base, ratio_part), length_part),
                       paragraph_part), sentence_part), <<1, 1>>)

\* The text given to validate_content has more than one paragraph: a blank
\* line stands between two of its parts.
HasParagraphs(content) == ParagraphCount(Strip(content)) > 1

\* C32: the quality_score of validate_content holds the 0.05 paragraph bonus
\* exactly when the validated content has more than one paragraph, and the
\* 0.05 sentence bonus exactly when splitting the scored text at the sentence
\* endings gives more than two parts.
StructureBonuses ==
    (Validated /\ ~vReturn.raised) =>
        vReturn.quality_score =
            ScoreWithBonuses(vReturn.cleaned_content,
                             Len(clean_content(vContent)) >= vConfig.min_content_length,
                             vReturn.meaningful_content_ratio, vConfig,
                             HasParagraphs(vContent),
                             SentenceCount(vReturn.cleaned_content) > 2)

\* The length gate and the ratio gate of validate_content let the content
\* pass, and the cut has not taken the text below the minimum length.
PassesLengthAndRatio ==
    /\ Validated
    /\ ~vReturn.raised
    /\ vConfig.min_content_length >= 1
    /\ Len(clean_content(vContent)) >= vConfig.min_content_length
    /\ Len(vReturn.cleaned_content) >= vConfig.min_content_length
    /\ RLeq(<<3, 10>>, vReturn.meaningful_content_ratio)

\* C39: under every configuration with min_content_length >= 1, a cleaned
\* text that meets the minimum length, is not cut below it and has a
\* meaningful ratio of at least 0.30 has a quality_score of at least 0.50:
\* the score gate alone never rejects it, and the result is valid.
ScoreGateNeverAlone ==
    PassesLengthAndRatio =>
        /\ RLeq(<<1, 2>>, vReturn.quality_score)
        /\ vReturn.is_valid

\* A text of exactly the minimum length with a meaningful ratio between
\* 0.30 and 0.50 passes the two gates; its score, 0.3 + 0.4 * ratio + 0.1
\* and the bonuses of structure, is below 0.60.
ScoreGateNeverAloneWitness ==
    /\ PassesLengthAndRatio
    /\ RLess(vReturn.meaningful_content_ratio, <<1, 2>>)
    /\ Len(vReturn.cleaned_content) = vConfig.min_content_length
    /\ RLess(vReturn.quality_score, <<3, 5>>)

(***************************************************************************)
(* get_content_summary on a string with a budget of characters.            *)
(***************************************************************************)
SummaryInputs == StringsUpTo(TruncateAlphabet, MaxTruncateLength)

SummaryLimits == 0..(MaxTruncateLength + 1)

InitSummary ==
    /\ vOp = "get_content_summary"
    /\ vContent \in SummaryInputs
    /\ vMaxLength \in SummaryLimits
    /\ vConfig = DefaultConfig
    /\ vCalls = 0
    /\ vFirst = <<>>
    /\ vReturn = <<>>
    /\ ResultOff
    /\ ExtractorOff
    /\ ConfigOff
    /\ ManagerOff
    /\ PreloadOff
    /\ SelectorsOff
    /\ PipelinesOff

Summarise ==
    /\ vOp = "get_content_summary"
    /\ vCalls = 0
    /\ vReturn' = get_content_summary(vContent, vMaxLength)
    /\ vFirst' = vReturn'
    /\ vCalls' = 1
    /\ UNCHANGED <<vOp, vContent, vMaxLength, vConfig, resultVars, extractorVars, configVars, managerVars,
                   preloadVars, selectorVars, pipelineVars>>

NextSummary == Summarise

SpecSummary == InitSummary /\ [][NextSummary]_vars

\* C20: get_content_summary returns at most max_summary_length characters:
\* the whole cleaned text when it fits, and otherwise a cut of it.
SummaryWithinBudget ==
    (vOp = "get_content_summary" /\ vCalls = 1) =>
        /\ Len(vReturn) <= vMaxLength
        /\ Len(clean_content(vContent)) <= vMaxLength => vReturn = clean_content(vContent)

(***************************************************************************)
(* ContentResult: the construction of one instance.                        *)
(***************************************************************************)
\* A quality_score argument: a number (an int or a float, as a fraction), the
\* float nan, or a value that is no number (None, a str).
Number(x) == [kind |-> "number", value |-> x]

NotANumber == [kind |-> "nan", value |-> <<0, 1>>]

NoNumber == [kind |-> "other", value |-> <<0, 1>>]

\* isinstance(quality_score, (int, float)) and 0.0 <= quality_score <= 1.0;
\* every comparison with nan is false.
QualityScoreIsValid(quality_score) ==
    /\ quality_score.kind \in {"number", "nan"}
    /\ quality_score.kind # "nan"
    /\ RLeq(<<0, 1>>, quality_score.value)
    /\ RLeq(quality_score.value, <<1, 1>>)

\* A __post_init__ that checks the score alone.
ContentResultRaisesOnScoreOnly(content, quality_score, success) ==
    ~QualityScoreIsValid(quality_score)

\* ContentResult.__post_init__ raises ValueError.
ContentResultRaises(content, quality_score, success) ==
    \/ ~QualityScoreIsValid(quality_score)
    \/ success /\ content = <<>>

MaxResultContentLength == 2

MaxScoreSteps == 4

ResultContents == StringsUpTo({"a", " "}, MaxResultContentLength)

\* The fractions n / MaxScoreSteps from -1 to 2, nan, and a value of another type.
QualityScores ==
    {Number(Rat(n, MaxScoreSteps)) : n \in (0 - MaxScoreSteps)..(2 * MaxScoreSteps)}
        \cup {NotANumber, NoNumber}

InitResult ==
    /\ rContent \in ResultContents
    /\ rSuccess \in BOOLEAN
    /\ rQualityScore \in QualityScores
    /\ rOutcome = "none"
    /\ ValidatorOff
    /\ ExtractorOff
    /\ ConfigOff
    /\ ManagerOff
    /\ PreloadOff
    /\ SelectorsOff
    /\ PipelinesOff

Construct ==
    /\ rOutcome = "none"
    /\ rOutcome' = IF ContentResultRaises(rContent, rQualityScore, rSuccess)
                    THEN "raised" ELSE "built"
    /\ UNCHANGED <<rContent, rSuccess, rQualityScore, validatorVars, extractorVars, configVars, managerVars,
                   preloadVars, selectorVars, pipelineVars>>

NextResult == Construct

SpecResult == InitResult /\ [][NextResult]_vars

\* The score is a number of the closed interval from 0 to 1.
ScoreInUnitInterval ==
    /\ rQualityScore.kind = "number"
    /\ rQualityScore.value[1] >= 0
    /\ rQualityScore.value[1] <= rQualityScore.value[2]

\* C10: the construction of a ContentResult fails exactly when success is
\* true with empty content or quality_score is outside [0.0, 1.0]; every
\* other combination is accepted.
ContentResultConstruction ==
    (rOutcome \in {"built", "raised"}) =>
        (rOutcome = "raised" <=> ((rSuccess /\ rContent = <<>>) \/ ~ScoreInUnitInterval))

\* A failed extraction with empty content and a score in range was accepted.
ContentResultConstructionWitness ==
    /\ rOutcome = "built"
    /\ ~rSuccess
    /\ rContent = <<>>
    /\ ScoreInUnitInterval

(***************************************************************************)
(* ExtractionConfig: the construction of one instance.                     *)
(***************************************************************************)
MaxConfigValue == 2

\* The values of an argument: from -1 to MaxConfigValue.
ConfigValues == (0 - 1)..MaxConfigValue

ConfigArgs ==
    [timeout_seconds : ConfigValues, min_content_length : ConfigValues,
     max_content_length : ConfigValues, retry_count : ConfigValues]

\* A __post_init__ that accepts max_content_length = min_content_length.
ExtractionConfigErrorLax(args) ==
    IF args.timeout_seconds <= 0 THEN "timeout_seconds"
    ELSE IF args.min_content_length < 0 THEN "min_content_length"
    ELSE IF args.max_content_length < args.min_content_length THEN "max_content_length"
    ELSE IF args.retry_count < 0 THEN "retry_count"
    ELSE "None"

\* ExtractionConfig.__post_init__: the field the ValueError is about, "None"
\* when none is raised.
ExtractionConfigError(args) ==
    IF args.timeout_seconds <= 0 THEN "timeout_seconds"
    ELSE IF args.min_content_length < 0 THEN "min_content_length"
    ELSE IF args.max_content_length <= args.min_content_length THEN "max_content_length"
    ELSE IF args.retry_count < 0 THEN "retry_count"
    ELSE "None"

InitConfig ==
    /\ cArgs \in ConfigArgs
    /\ cOutcome = "none"
    /\ cFields = NoConfigArgs
    /\ ValidatorOff
    /\ ResultOff
    /\ ExtractorOff
    /\ ManagerOff
    /\ PreloadOff
    /\ SelectorsOff
    /\ PipelinesOff

\* ExtractionConfig(**cArgs): the generated __init__ stores the arguments in
\* the fields, then __post_init__ validates them.
ConstructConfig ==
    /\ cOutcome = "none"
    /\ IF ExtractionConfigError(cArgs) # "None"
       THEN cOutcome' = "raised" /\ UNCHANGED cFields
       ELSE cOutcome' = "built" /\ cFields' = cArgs
    /\ UNCHANGED <<cArgs, validatorVars, resultVars, extractorVars, managerVars,
                   preloadVars, selectorVars, pipelineVars>>

NextConfig == ConstructConfig

SpecConfig == InitConfig /\ [][NextConfig]_vars

\* C11: the construction of an ExtractionConfig succeeds exactly when
\* timeout_seconds > 0, min_content_length >= 0, max_content_length >
\* min_content_length and retry_count >= 0; otherwise it raises, and the
\* instance built holds the arguments as they were given.
ConfigConstruction ==
    (cOutcome \in {"built", "raised"}) =>
        /\ cOutcome = "built" <=>
               /\ cArgs.timeout_seconds > 0
               /\ cArgs.min_content_length >= 0
               /\ cArgs.max_content_length > cArgs.min_content_length
               /\ cArgs.retry_count >= 0
        /\ cOutcome = "built" => cFields = cArgs

\* A construction that a clamping constructor would have repaired
\* (max_content_length = min_content_length, the other arguments legal)
\* raised.
ConfigConstructionRaisedWitness ==
    /\ cOutcome = "raised"
    /\ cArgs.timeout_seconds > 0
    /\ cArgs.min_content_length >= 0
    /\ cArgs.max_content_length = cArgs.min_content_length
    /\ cArgs.retry_count >= 0

(***************************************************************************)
(* Documents and driver faults.                                            *)
(***************************************************************************)
\* "the recipe needs two cups of rice" (33 characters)
GoodLine ==
    <<"t", "h", "e", " ", "r", "e", "c", "i", "p", "e", " ", "n", "e", "e",
      "d", "s", " ", "t", "w", "o", " ", "c", "u", "p", "s", " ", "o", "f",
      " ", "r", "i", "c", "e">>

\* "we met at the station around noon" (33 characters)
OtherLine ==
    <<"w", "e", " ", "m", "e", "t", " ", "a", "t", " ", "t", "h", "e", " ",
      "s", "t", "a", "t", "i", "o", "n", " ", "a", "r", "o", "u", "n", "d",
      " ", "n", "o", "o", "n">>

\* "\uC811\uADFC \uAD8C\uD55C\uC774 \uC5C6\uC2B5\uB2C8\uB2E4 for this page of the cafe" (37 characters)
DeniedLine ==
    <<"uC811", "uADFC", " ", "uAD8C", "uD55C", "uC774", " ", "uC5C6", "uC2B5",
      "uB2C8", "uB2E4", " ", "f", "o", "r", " ", "t", "h", "i", "s", " ", "p",
      "a", "g", "e", " ", "o", "f", " ", "t", "h", "e", " ", "c", "a", "f",
      "e">>

\* The content of a failed result: "\uB0B4\uC6A9\uC744 \uBD88\uB7EC\uC62C \uC218 \uC5C6\uC2B5\uB2C8\uB2E4.\n\uC6D0\uBCF8 \uB9C1\uD06C: " and the url.
FailureContent ==
    <<"uB0B4", "uC6A9", "uC744", " ", "uBD88", "uB7EC", "uC62C", " ", "uC218",
      " ", "uC5C6", "uC2B5", "uB2C8", "uB2E4", ".", "\n", "uC6D0", "uBCF8",
      " ", "uB9C1", "uD06C", ":", " ">> \o url

\* error_message of the result after every method failed.
AllMethodsFailed == "uBAA8uB4E0 uCD94uCD9C uBC29uBC95 uC2E4uD328"

\* "the recipe needs two cups" (25 characters)
ShortLine == SubSeq(GoodLine, 1, 25)

\* The texts of an element: one acceptable line, two acceptable lines, a text
\* with an invalid phrase, a line of 25 characters.
ElementTexts ==
    { GoodLine, GoodLine \o <<"\n">> \o OtherLine, DeniedLine, ShortLine }

\* A container of each strategy, a container the SmartEditor 2.0 and the
\* general strategies share, and an element no strategy selects.
ContainerSelectors ==
    { ".se-main-container", "#postViewArea", ".view-content", "#content-area",
      "#tbody", "div.article" }

\* The documents of at most n elements with these selectors and texts.
DocumentsOf(selectors, texts, n) ==
    UNION {[1..k -> [selector : selectors, text : texts]] : k \in 0..n}

Documents(selectors, n) == DocumentsOf(selectors, ElementTexts, n)

StrategySelectors(strategy) ==
    {strategy.selectors[n] : n \in 1..Len(strategy.selectors)}

\* The driver calls of the strategies that a fault changes the outcome of: a
\* find_elements that would return elements, and the two scripts.
FaultPoints(document) ==
    UNION { {<<strategy.name, document[i].selector>> :
                 i \in {j \in 1..Len(document) :
                           document[j].selector \in StrategySelectors(strategy)}}
            \cup (IF strategy.javascript = "none" THEN {}
                  ELSE {<<strategy.name, "execute_script">>}) :
            strategy \in {BuiltInStrategies[s] : s \in 1..Len(BuiltInStrategies)} }

\* The sets of at most budget faults.
FaultSets(document, budget) ==
    {calls \in SUBSET FaultPoints(document) : Cardinality(calls) <= budget}

MaxFaults == 1

(***************************************************************************)
(* SelectorStrategyManager.extract_with_strategies on a document.          *)
(***************************************************************************)
MaxPageElements == 2

NoStrategyResult ==
    [content |-> None, strategy |-> "None", extraction_method |-> "None",
     attempts |-> <<>>]

NoDebugInfo ==
    [page_ready_state |-> "unknown", selector_attempts |-> <<>>,
     screenshot_path |-> "None"]

\* An Optional[int]: None, or an int.
NoTime == [set |-> FALSE, value |-> 0]

Milliseconds(n) == [set |-> TRUE, value |-> n]

NoContentResult ==
    [raised |-> FALSE, content |-> <<>>, extraction_method |-> "None",
     quality_score |-> <<0, 1>>, debug_info |-> NoDebugInfo, success |-> FALSE,
     error_message |-> "None", extraction_time_ms |-> NoTime]

NoWindows == [window_handles |-> <<>>, current_window |-> 0]

InitStrategies ==
    /\ pc = "manager"
    /\ url = <<>>
    /\ page \in Documents(ContainerSelectors, MaxPageElements)
    /\ faults_left = MaxFaults
    /\ faulty = {}
    /\ strategy_result = NoStrategyResult
    /\ window_handles = <<>>
    /\ current_window = 0
    /\ before = NoWindows
    /\ in_frame = FALSE
    /\ enable_debug_screenshot = FALSE
    /\ original_window = 0
    /\ debug_info = NoDebugInfo
    /\ fallback_content = None
    /\ error = "None"
    /\ result = NoContentResult
    /\ steps = <<>>
    /\ loading_complete = "None"
    /\ iframe_switched = "None"
    /\ ValidatorOff
    /\ ResultOff
    /\ ConfigOff
    /\ ManagerOff
    /\ PreloadOff
    /\ SelectorsOff
    /\ PipelinesOff

\* One call of extract_with_strategies, the driver faulting where it chooses.
CallExtractWithStrategies ==
    /\ pc = "manager"
    /\ \E calls \in FaultSets(page, faults_left) :
           /\ faulty' = calls
           /\ faults_left' = faults_left - Cardinality(calls)
           /\ strategy_result' = extract_with_strategies(page, calls)
    /\ pc' = "managed"
    /\ steps' = Append(steps, "extract_with_strategies")
    /\ UNCHANGED <<window_handles, current_window, before, url, in_frame, page,
                   enable_debug_screenshot, original_window, debug_info,
                   fallback_content, error, result, validatorVars, resultVars, configVars, managerVars,
                   preloadVars, selectorVars, pipelineVars, waited>>

NextStrategies == CallExtractWithStrategies

SpecStrategies == InitStrategies /\ [][NextStrategies]_vars

\* The order the strategies are to be asked in.
FixedOrder ==
    <<SmartEditor3Strategy, SmartEditor2Strategy, GeneralEditorStrategy,
      LegacyEditorStrategy>>

\* The selectors of a strategy that find a container with acceptable content.
AcceptableSelectors(strategy) ==
    {n \in 1..Len(strategy.selectors) :
        SelectorContent(page, strategy.selectors[n]) # None}

\* C3: extract_with_strategies asks the strategies in the order SmartEditor3,
\* SmartEditor2, GeneralEditor, LegacyEditor and stops at the first that
\* yields; when the driver serves every call and containers of several
\* strategies hold acceptable content, the content and the extraction_method
\* returned are those of the earliest such strategy, wherever its container
\* stands in the document and whatever its size.
StrategyOrderDecides ==
    pc = "managed" =>
        LET attempts == strategy_result.attempts
            tried == Len(attempts)
            served == {k \in 1..Len(FixedOrder) : AcceptableSelectors(FixedOrder[k]) # {}}
        IN  /\ tried \in 1..Len(FixedOrder)
            /\ \A i \in 1..tried : attempts[i].selector = FixedOrder[i].name
            /\ \A i \in 1..(tried - 1) : ~attempts[i].success
            /\ strategy_result.content # None =>
                   /\ attempts[tried].success
                   /\ strategy_result.strategy = FixedOrder[tried].name
                   /\ strategy_result.extraction_method =
                          FixedOrder[tried].extraction_method
            /\ (faulty = {} /\ served # {}) =>
                   LET first == MinOf(served)
                       strategy == FixedOrder[first]
                       accepted == AcceptableSelectors(strategy)
                       n == MinOf(accepted)
                   IN  /\ strategy_result.extraction_method = strategy.extraction_method
                       /\ strategy_result.content =
                              SelectorContent(page, strategy.selectors[n])

\* A general-editor container with the longer text stands before a
\* SmartEditor 3.0 container in the document, and SmartEditor 3.0 won.
StrategyOrderWitness ==
    /\ pc = "managed"
    /\ faulty = {}
    /\ Len(page) = 2
    /\ page[1].selector = "#content-area"
    /\ page[1].text = GoodLine \o <<"\n">> \o OtherLine
    /\ page[2].selector = ".se-main-container"
    /\ page[2].text = GoodLine
    /\ strategy_result.extraction_method = "smart_editor_3"
    /\ strategy_result.content = GoodLine

\* The strategies that query the selector of this element before any other
\* element of the page with the same selector.
IsFirstMatch(i) ==
    /\ \A j \in 1..(i - 1) : page[j].selector # page[i].selector
    /\ \E k \in 1..Len(BuiltInStrategies) :
           page[i].selector \in StrategySelectors(BuiltInStrategies[k])

\* C25: extract_with_selectors accepts a selector exactly when its cleaned
\* text is longer than 20 characters and holds none of the phrases of a
\* failed extraction: with every driver call served, a page with an element
\* that a selector finds and whose cleaned text has 21 characters or more
\* and no such phrase yields content, and the content that is yielded is
\* longer than 20 characters and without such a phrase.
SelectorAcceptance ==
    (pc = "managed" /\ faulty = {}) =>
        /\ \A i \in 1..Len(page) :
               LET cleaned_content ==
                       basic_content_cleaning(extract_text_from_element(page[i]))
               IN  (/\ IsFirstMatch(i)
                    /\ Len(cleaned_content) > 20
                    /\ ~ContainsAny(cleaned_content, invalid_patterns))
                   => strategy_result.content # None
        /\ strategy_result.content # None =>
               /\ Len(strategy_result.content) > 20
               /\ ~ContainsAny(strategy_result.content, invalid_patterns)

\* The built-in strategies whose list holds the selector.
Listing(selector) ==
    {k \in 1..Len(BuiltInStrategies) :
        selector \in StrategySelectors(BuiltInStrategies[k])}

\* C34: the selector lists of the four built-in strategies are pairwise
\* disjoint: a container of the page that a selector matches belongs to the
\* list of one strategy only, and when a page of one such container yields
\* content, the extraction_method returned is that of this strategy.
SelectorListsDisjoint ==
    pc = "managed" =>
        /\ \A i, j \in 1..Len(BuiltInStrategies) :
               i # j => StrategySelectors(BuiltInStrategies[i])
                            \cap StrategySelectors(BuiltInStrategies[j]) = {}
        /\ \A e \in 1..Len(page) : Cardinality(Listing(page[e].selector)) <= 1
        /\ (Len(page) = 1 /\ strategy_result.content # None) =>
               \A k \in Listing(page[1].selector) :
                   strategy_result.extraction_method =
                       BuiltInStrategies[k].extraction_method

(***************************************************************************)
(* ContentExtractor.extract_content: one call against a browser with open  *)
(* windows.  Any driver call may fault while faults are left; the calls on *)
(* a window that was closed fault always.                                  *)
(***************************************************************************)
MaxPreWindows == 2

MaxExtractorElements == 1

\* A container of two strategies and an element no strategy selects.
ExtractorSelectors == { ".se-main-container", "#content-area", "div.article" }

\* The handle of the tab that window.open creates.
NewWindow == Len(before.window_handles) + 1

MayFault == faults_left > 0

Fault == faults_left' = faults_left - 1

Step(name) == steps' = Append(steps, name)

\* int((time.time() - start_time) * 1000) is at most this in the model.
MaxElapsedMs == 1

\* A failed result whose content leaves the link out.
FailureResultWithoutLink(error_message, info, elapsed) ==
    [raised |-> FALSE,
     content |-> SubSeq(FailureContent, 1, Len(FailureContent) - Len(url) - 1),
     extraction_method |-> "fallback", quality_score |-> <<0, 1>>,
     debug_info |-> info, success |-> FALSE, error_message |-> error_message,
     extraction_time_ms |-> Milliseconds(elapsed)]

\* The failed result of lines 320-328 and 343-351.
FailureResult(error_message, info, elapsed) ==
    [raised |-> FALSE, content |-> FailureContent, extraction_method |-> "fallback",
     quality_score |-> <<0, 1>>, debug_info |-> info, success |-> FALSE,
     error_message |-> error_message, extraction_time_ms |-> Milliseconds(elapsed)]

\* The successful result of lines 276-283 and 302-309.
SuccessResult(validation, extraction_method, info, elapsed) ==
    [raised |-> FALSE, content |-> validation.cleaned_content,
     extraction_method |-> extraction_method,
     quality_score |-> validation.quality_score, debug_info |-> info,
     success |-> TRUE, error_message |-> "None",
     extraction_time_ms |-> Milliseconds(elapsed)]

\* A line of one repeated character, which the strategies accept and the
\* validator cleans down to one character: too short for the walk.
RepeatedLine == [i \in 1..31 |-> "x"]

\* The same, long enough for the walk.
LongRepeatedLine == [i \in 1..51 |-> "x"]

\* A text the strategies accept and the walk finds too short, and a text long
\* enough for the walk.
ExtractorTexts == { GoodLine, GoodLine \o <<"\n">> \o OtherLine }

\* The texts of a page: those, and the two texts that fail the validation.
PageTexts == ExtractorTexts \cup { RepeatedLine, LongRepeatedLine }

\* A container of the first strategy and an element no strategy selects.
PageSelectors == { ".se-main-container", "div.article" }

\* The pages a window can show.
Pages == DocumentsOf(PageSelectors, PageTexts, MaxExtractorElements)

\* What the strategies and the walk can yield on the pages.
PageContents ==
    (UNION {{extract_with_strategies(document, calls).content :
                 calls \in SUBSET FaultPoints(document)} : document \in Pages}
         \cup {extract_with_dom_traversal(document, FALSE) : document \in Pages})
    \ {None}

\* The configurations of an extractor: the defaults, the least lengths that
\* ExtractionConfig accepts, and a maximum below the length of a page's text.
ExtractorConfigs ==
    { DefaultConfig,
      [min_content_length |-> 0, max_content_length |-> 1],
      [min_content_length |-> 1, max_content_length |-> 20] }

\* The validator of the extractor is ContentValidator(config); its results
\* on the contents of the pages, computed once.
ValidationTable ==
    {<<content, config, validate_content(content, config)>> :
         content \in PageContents, config \in ExtractorConfigs}

Validation(content) ==
    (CHOOSE entry \in ValidationTable : entry[1] = content /\ entry[2] = vConfig)[3]

\* The validator of an extractor before any call.
ValidatorOfExtractor ==
    /\ vOp = "off"
    /\ vContent = <<>>
    /\ vMaxLength = 0
    /\ vConfig \in ExtractorConfigs
    /\ vCalls = 0
    /\ vFirst = <<>>
    /\ vReturn = <<>>

\* The url arguments: the empty string and "http://a".
Urls == { <<>>, <<"h", "t", "t", "p", ":", "/", "/", "a">> }

Init ==
    /\ pc = "start"
    /\ url \in Urls
    /\ \E n \in 1..MaxPreWindows :
           /\ window_handles = [i \in 1..n |-> i]
           /\ current_window \in 1..n
    /\ before = [window_handles |-> window_handles, current_window |-> current_window]
    /\ in_frame = FALSE
    /\ page \in Pages
    /\ faults_left = MaxFaults
    /\ faulty = {}
    /\ enable_debug_screenshot \in BOOLEAN
    /\ original_window = 0
    /\ debug_info = NoDebugInfo
    /\ strategy_result = NoStrategyResult
    /\ fallback_content = None
    /\ error = "None"
    /\ result = NoContentResult
    /\ steps = <<>>
    /\ loading_complete = "None"
    /\ iframe_switched = "None"
    /\ ValidatorOfExtractor
    /\ ResultOff
    /\ ConfigOff
    /\ ManagerOff
    /\ PreloadOff
    /\ SelectorsOff
    /\ PipelinesOff

\* Line 237, before the try: original_window = driver.current_window_handle.
\* A fault here leaves the call as an exception.
ReadOriginalWindow ==
    /\ pc = "start"
    /\ Step("current_window_handle")
    /\ \/ /\ original_window' = current_window
          /\ pc' = "collect"
          /\ UNCHANGED <<faults_left, error, result>>
       \/ /\ MayFault
          /\ Fault
          /\ error' = "current_window_handle"
          /\ result' = [NoContentResult EXCEPT !.raised = TRUE]
          /\ pc' = "done"
          /\ UNCHANGED original_window
    /\ UNCHANGED <<window_handles, current_window, in_frame, before, url, page, faulty,
                   enable_debug_screenshot, debug_info, strategy_result,
                   fallback_content, validatorVars, resultVars, configVars, managerVars,
                   preloadVars, selectorVars, pipelineVars, waited>>

\* Line 243: DebugCollector.collect_page_info, which catches the fault of
\* its script.
CollectPageInfo ==
    /\ pc = "collect"
    /\ Step("collect_page_info")
    /\ \/ /\ debug_info' = [NoDebugInfo EXCEPT !.page_ready_state = "complete"]
          /\ UNCHANGED faults_left
       \/ /\ MayFault
          /\ Fault
          /\ debug_info' = [NoDebugInfo EXCEPT !.page_ready_state = "error"]
    /\ pc' = "open"
    /\ UNCHANGED <<window_handles, current_window, in_frame, before, url, page, faulty,
                   enable_debug_screenshot, original_window, strategy_result,
                   fallback_content, error, result, validatorVars, resultVars, configVars, managerVars,
                   preloadVars, selectorVars, pipelineVars, waited>>

\* Line 246: execute_script("window.open(...)").
OpenTab ==
    /\ pc = "open"
    /\ Step("window.open")
    /\ \/ /\ window_handles' = Append(window_handles, NewWindow)
          /\ pc' = "switch"
          /\ UNCHANGED <<faults_left, error>>
       \/ /\ MayFault
          /\ Fault
          /\ error' = "window.open"
          /\ pc' = "except"
          /\ UNCHANGED window_handles
    /\ UNCHANGED <<current_window, in_frame, before, url, page, faulty,
                   enable_debug_screenshot, original_window, debug_info,
                   strategy_result, fallback_content, result, validatorVars,
                   resultVars, configVars, managerVars, preloadVars, selectorVars, pipelineVars, waited>>

\* Line 247: switch_to.window(window_handles[-1]).
SwitchToNewTab ==
    /\ pc = "switch"
    /\ Step("switch_to.window")
    /\ \/ /\ current_window' = window_handles[Len(window_handles)]
          /\ pc' = "loading"
          /\ UNCHANGED <<faults_left, error>>
       \/ /\ MayFault
          /\ Fault
          /\ error' = "switch_to.window"
          /\ pc' = "except"
          /\ UNCHANGED current_window
    /\ UNCHANGED <<window_handles, in_frame, before, url, page, faulty,
                   enable_debug_screenshot, original_window, debug_info,
                   strategy_result, fallback_content, result, validatorVars,
                   resultVars, configVars, managerVars, preloadVars, selectorVars, pipelineVars, waited>>

\* Lines 250-251: PreloadingManager.wait_for_complete_loading returns True,
\* or False after a timeout of the ready state or a fault, which it catches;
\* the False is only logged.
WaitForCompleteLoading ==
    /\ pc = "loading"
    /\ Step("wait_for_complete_loading")
    /\ \/ loading_complete' = "True" /\ UNCHANGED faults_left
       \/ loading_complete' = "False" /\ UNCHANGED faults_left
       \/ MayFault /\ Fault /\ loading_complete' = "False"
    /\ pc' = "iframe"
    /\ UNCHANGED <<window_handles, current_window, in_frame, before, url, page, faulty,
                   enable_debug_screenshot, original_window, debug_info,
                   strategy_result, fallback_content, error, result,
                   validatorVars, resultVars, configVars, managerVars,
                   preloadVars, selectorVars, pipelineVars, iframe_switched>>

\* A wait for the iframe whose failure is raised to the handler of
\* extract_content instead of being logged.
WaitForIframeAndSwitchRaising ==
    /\ pc = "iframe"
    /\ Step("wait_for_iframe_and_switch")
    /\ \/ /\ in_frame' = TRUE
          /\ iframe_switched' = "True"
          /\ pc' = "strategies"
          /\ UNCHANGED <<faults_left, error>>
       \/ /\ in_frame' = FALSE
          /\ iframe_switched' = "False"
          /\ error' = "TimeoutException"
          /\ pc' = "except"
          /\ UNCHANGED faults_left
    /\ UNCHANGED <<window_handles, current_window, before, url, page, faulty,
                   enable_debug_screenshot, original_window, debug_info,
                   strategy_result, fallback_content, result,
                   validatorVars, resultVars, configVars, managerVars,
                   preloadVars, selectorVars, pipelineVars, loading_complete>>

\* Lines 254-256: PreloadingManager.wait_for_iframe_and_switch: the driver
\* enters the cafe_main frame and the method returns True, or the wait times
\* out or a call faults and it returns False; the False is only logged.
WaitForIframeAndSwitch ==
    /\ pc = "iframe"
    /\ Step("wait_for_iframe_and_switch")
    /\ \/ in_frame' = TRUE /\ iframe_switched' = "True" /\ UNCHANGED faults_left
       \/ in_frame' = FALSE /\ iframe_switched' = "False" /\ UNCHANGED faults_left
       \/ MayFault /\ Fault /\ in_frame' = FALSE /\ iframe_switched' = "False"
    /\ pc' = "strategies"
    /\ UNCHANGED <<window_handles, current_window, before, url, page, faulty,
                   enable_debug_screenshot, original_window, debug_info,
                   strategy_result, fallback_content, error, result,
                   validatorVars, resultVars, configVars, managerVars,
                   preloadVars, selectorVars, pipelineVars, loading_complete>>

\* What the strategies find on each page under each set of faults, and what
\* the walk finds on each page, computed once.
StrategiesTable ==
    UNION { { <<document, calls, extract_with_strategies(document, calls)>> :
                  calls \in FaultSets(document, MaxFaults) } : document \in Pages }

StrategiesOn(document, calls) ==
    (CHOOSE entry \in StrategiesTable : entry[1] = document /\ entry[2] = calls)[3]

WalkTable ==
    { <<document, script_fault, extract_with_dom_traversal(document, script_fault)>> :
          document \in Pages, script_fault \in BOOLEAN }

WalkOn(document, script_fault) ==
    (CHOOSE entry \in WalkTable : entry[1] = document /\ entry[2] = script_fault)[3]

\* Lines 259-266: extract_with_strategies; with content, the attempts go to
\* debug_info.
ExtractWithStrategies ==
    /\ pc = "strategies"
    /\ Step("extract_with_strategies")
    /\ \E calls \in FaultSets(page, faults_left) :
           /\ faulty' = calls
           /\ faults_left' = faults_left - Cardinality(calls)
           /\ strategy_result' = StrategiesOn(page, calls)
    /\ IF strategy_result'.content # None /\ strategy_result'.content # <<>>
       THEN /\ debug_info' =
                   [debug_info EXCEPT !.selector_attempts = strategy_result'.attempts]
            /\ pc' = "validate"
       ELSE /\ pc' = "dom_traversal"
            /\ UNCHANGED debug_info
    /\ UNCHANGED <<window_handles, current_window, in_frame, before, url, page,
                   enable_debug_screenshot, original_window, fallback_content,
                   error, result, validatorVars, resultVars, configVars, managerVars,
                   preloadVars, selectorVars, pipelineVars, waited>>

\* The return of a successful result: the construction of the ContentResult
\* may raise into the handler.
ReturnSuccess(validation, extraction_method) ==
    IF ContentResultRaises(validation.cleaned_content,
                           Number(validation.quality_score), TRUE)
    THEN /\ error' = "ValueError"
         /\ pc' = "except"
         /\ UNCHANGED result
    ELSE /\ \E elapsed \in 0..MaxElapsedMs :
                result' = SuccessResult(validation, extraction_method, debug_info, elapsed)
         /\ pc' = "finally"
         /\ UNCHANGED error

\* A return after a validation that does not look at is_valid.
AfterValidationUnchecked(validation_result, extraction_method, otherwise) ==
    IF validation_result.raised
    THEN error' = "ZeroDivisionError" /\ pc' = "except" /\ UNCHANGED result
    ELSE ReturnSuccess(validation_result, extraction_method)

\* What follows a validation: an exception of the validator goes to the
\* handler, a valid result is returned, an invalid one leads to the next
\* method.
AfterValidation(validation_result, extraction_method, otherwise) ==
    IF validation_result.raised
    THEN error' = "ZeroDivisionError" /\ pc' = "except" /\ UNCHANGED result
    ELSE IF validation_result.is_valid
    THEN ReturnSuccess(validation_result, extraction_method)
    ELSE pc' = otherwise /\ UNCHANGED <<error, result>>

\* Lines 269-285: validate_content on the content of the strategies.
ValidateStrategyContent ==
    /\ pc = "validate"
    /\ Step("validate_content")
    /\ AfterValidation(Validation(strategy_result.content),
                       strategy_result.extraction_method, "dom_traversal")
    /\ UNCHANGED <<window_handles, current_window, in_frame, before, url, page,
                   faults_left, faulty, enable_debug_screenshot, original_window,
                   debug_info, strategy_result, fallback_content, validatorVars,
                   resultVars, configVars, managerVars, preloadVars, selectorVars, pipelineVars, waited>>

\* Lines 290-291: the first last-resort walk.
DomTraversal ==
    /\ pc = "dom_traversal"
    /\ Step("extract_with_dom_traversal")
    /\ \/ /\ fallback_content' = WalkOn(page, FALSE)
          /\ UNCHANGED faults_left
       \/ /\ MayFault
          /\ Fault
          /\ fallback_content' = WalkOn(page, TRUE)
    /\ pc' = IF fallback_content' # None THEN "fallback_validate" ELSE "refresh_retry"
    /\ UNCHANGED <<window_handles, current_window, in_frame, before, url, page, faulty,
                   enable_debug_screenshot, original_window, debug_info,
                   strategy_result, error, result, validatorVars, resultVars, configVars, managerVars,
                   preloadVars, selectorVars, pipelineVars, waited>>

\* A refresh-and-retry that goes back to the first walk when it found
\* nothing.
RefreshRetryAgain ==
    /\ pc = "refresh_retry"
    /\ Step("extract_with_refresh_retry")
    /\ \/ /\ MayFault
          /\ Fault
          /\ fallback_content' = None
          /\ UNCHANGED <<page, in_frame>>
       \/ /\ page' \in Pages
          /\ in_frame' \in BOOLEAN
          /\ \/ /\ fallback_content' = WalkOn(page', FALSE)
                /\ UNCHANGED faults_left
             \/ /\ MayFault
                /\ Fault
                /\ fallback_content' = WalkOn(page', TRUE)
    /\ pc' = IF fallback_content' # None THEN "fallback_validate" ELSE "dom_traversal"
    /\ UNCHANGED <<window_handles, current_window, before, url, faulty,
                   enable_debug_screenshot, original_window, debug_info,
                   strategy_result, error, result, validatorVars, resultVars, configVars, managerVars,
                   preloadVars, selectorVars, pipelineVars, waited>>

\* Line 292: FallbackExtractor.extract_with_refresh_retry: the refresh loads
\* the page again, the wait for the frame succeeds or not, and the walk runs
\* on the page as it is then; a fault of the refresh ends it with None.
RefreshRetry ==
    /\ pc = "refresh_retry"
    /\ Step("extract_with_refresh_retry")
    /\ \/ /\ MayFault
          /\ Fault
          /\ fallback_content' = None
          /\ UNCHANGED <<page, in_frame>>
       \/ /\ page' \in Pages
          /\ in_frame' \in BOOLEAN
          /\ \/ /\ fallback_content' = WalkOn(page', FALSE)
                /\ UNCHANGED faults_left
             \/ /\ MayFault
                /\ Fault
                /\ fallback_content' = WalkOn(page', TRUE)
    /\ pc' = IF fallback_content' # None THEN "fallback_validate" ELSE "fail"
    /\ UNCHANGED <<window_handles, current_window, before, url, faulty,
                   enable_debug_screenshot, original_window, debug_info,
                   strategy_result, error, result, validatorVars, resultVars, configVars, managerVars,
                   preloadVars, selectorVars, pipelineVars, waited>>

\* Lines 294-309: validate_content on the content of the walk.
ValidateFallbackContent ==
    /\ pc = "fallback_validate"
    /\ Step("validate_content")
    /\ AfterValidation(Validation(fallback_content), "fallback", "fail")
    /\ UNCHANGED <<window_handles, current_window, in_frame, before, url, page,
                   faults_left, faulty, enable_debug_screenshot, original_window,
                   debug_info, strategy_result, fallback_content, validatorVars,
                   resultVars, configVars, managerVars, preloadVars, selectorVars, pipelineVars, waited>>

\* A capture that does not look at the configuration.
SaveDebugScreenshotAlways ==
    /\ steps' = Append(steps, "save_debug_screenshot")
    /\ \/ /\ debug_info' = [debug_info EXCEPT !.screenshot_path = "filepath"]
          /\ UNCHANGED faults_left
       \/ /\ MayFault
          /\ Fault
          /\ debug_info' = [debug_info EXCEPT !.screenshot_path = "None"]

\* DebugCollector.save_debug_screenshot when the configuration enables it:
\* the path of the file, or None after a fault, which it catches.
SaveDebugScreenshot ==
    IF enable_debug_screenshot
    THEN /\ steps' = Append(steps, "save_debug_screenshot")
         /\ \/ /\ debug_info' = [debug_info EXCEPT !.screenshot_path = "filepath"]
               /\ UNCHANGED faults_left
            \/ /\ MayFault
               /\ Fault
               /\ debug_info' = [debug_info EXCEPT !.screenshot_path = "None"]
    ELSE UNCHANGED <<steps, debug_info, faults_left>>

\* Lines 312-328: every method failed.
FailureReturn ==
    /\ pc = "fail"
    /\ SaveDebugScreenshot
    /\ \E elapsed \in 0..MaxElapsedMs :
           result' = FailureResult(AllMethodsFailed, debug_info', elapsed)
    /\ pc' = "finally"
    /\ UNCHANGED <<window_handles, current_window, in_frame, before, url, page, faulty,
                   enable_debug_screenshot, original_window, strategy_result,
                   fallback_content, error, validatorVars, resultVars, configVars, managerVars,
                   preloadVars, selectorVars, pipelineVars, waited>>

\* Lines 330-351: the handler of every exception of the try block.  str(e) is
\* the text of the exception, which for the exceptions of the try block is
\* never empty: the message of a selenium exception starts with "Message: ".
HandleException ==
    /\ pc = "except"
    /\ SaveDebugScreenshot
    /\ \E elapsed \in 0..MaxElapsedMs :
           result' = FailureResult(error, debug_info', elapsed)
    /\ pc' = "finally"
    /\ UNCHANGED <<window_handles, current_window, in_frame, before, url, page, faulty,
                   enable_debug_screenshot, original_window, strategy_result,
                   fallback_content, error, validatorVars, resultVars, configVars, managerVars,
                   preloadVars, selectorVars, pipelineVars, waited>>

\* Line 356: the finally block reads driver.window_handles; a fault ends the
\* block, which catches it.
Finally ==
    /\ pc = "finally"
    /\ Step("window_handles")
    /\ \/ /\ pc' = IF Len(window_handles) > 1 THEN "close" ELSE "restore"
          /\ UNCHANGED faults_left
       \/ /\ MayFault
          /\ Fault
          /\ pc' = "done"
    /\ UNCHANGED <<window_handles, current_window, in_frame, before, url, page, faulty,
                   enable_debug_screenshot, original_window, debug_info,
                   strategy_result, fallback_content, error, result,
                   validatorVars, resultVars, configVars, managerVars,
                   preloadVars, selectorVars, pipelineVars, waited>>

\* Line 357: driver.close() closes the window the driver is on, whichever it
\* is; a fault ends the block.
CloseWindow ==
    /\ pc = "close"
    /\ Step("close")
    /\ \/ /\ window_handles' = SelectSeq(window_handles, LAMBDA w : w # current_window)
          /\ pc' = "restore"
          /\ UNCHANGED faults_left
       \/ /\ MayFault
          /\ Fault
          /\ pc' = "done"
          /\ UNCHANGED window_handles
    /\ UNCHANGED <<current_window, in_frame, before, url, page, faulty,
                   enable_debug_screenshot, original_window, debug_info,
                   strategy_result, fallback_content, error, result,
                   validatorVars, resultVars, configVars, managerVars,
                   preloadVars, selectorVars, pipelineVars, waited>>

\* Line 358: switch_to.window(original_window); the driver refuses a window
\* that is closed, and the block catches that as it catches a fault.
RestoreWindow ==
    /\ pc = "restore"
    /\ Step("switch_to.window")
    /\ \/ /\ \E i \in 1..Len(window_handles) : window_handles[i] = original_window
          /\ current_window' = original_window
          /\ in_frame' = FALSE
          /\ UNCHANGED faults_left
       \/ /\ \A i \in 1..Len(window_handles) : window_handles[i] # original_window
          /\ UNCHANGED <<current_window, in_frame, faults_left>>
       \/ /\ MayFault
          /\ Fault
          /\ UNCHANGED <<current_window, in_frame>>
    /\ pc' = "done"
    /\ UNCHANGED <<window_handles, before, url, page, faulty, enable_debug_screenshot,
                   original_window, debug_info, strategy_result, fallback_content,
                   error, result, validatorVars, resultVars, configVars, managerVars,
                   preloadVars, selectorVars, pipelineVars, waited>>

Next ==
    \/ ReadOriginalWindow
    \/ CollectPageInfo
    \/ OpenTab
    \/ SwitchToNewTab
    \/ WaitForCompleteLoading
    \/ WaitForIframeAndSwitch
    \/ ExtractWithStrategies
    \/ ValidateStrategyContent
    \/ DomTraversal
    \/ RefreshRetry
    \/ ValidateFallbackContent
    \/ FailureReturn
    \/ HandleException
    \/ Finally
    \/ CloseWindow
    \/ RestoreWindow

Spec == Init /\ [][Next]_vars

\* Whether the call has made this step.
Called(name) == \E i \in 1..Len(steps) : steps[i] = name

WindowIsOpen(w) == \E i \in 1..Len(window_handles) : window_handles[i] = w

\* C1: extract_content never raises: whatever driver call fails, reading the
\* current window handle included, the call returns a ContentResult, and a
\* fault that ends the extraction gives success = false with the fault text
\* as error_message.
ExtractContentNeverRaises ==
    pc = "done" =>
        /\ ~result.raised
        /\ error # "None" => (~result.success /\ result.error_message = error)

\* C2: when extract_content is over, on every exit path, the tab it opened
\* is closed, every window that was open before the call is still open, and
\* the driver is on the window it was on before the call.
WindowsRestored ==
    pc = "done" =>
        /\ ~WindowIsOpen(NewWindow)
        /\ \A i \in 1..Len(before.window_handles) :
               WindowIsOpen(before.window_handles[i])
        /\ current_window = before.current_window

\* C4: when no strategy yields content, extract_with_strategies returns
\* content None and an attempt trail of exactly one failed attempt per
\* strategy, four for the built-in set, in the order of the strategies, and
\* extract_content goes on to the last-resort walk of the document.
AllStrategiesFailedThenWalk ==
    (Called("extract_with_strategies") /\ strategy_result.content = None) =>
        /\ Len(strategy_result.attempts) = Len(FixedOrder)
        /\ Len(strategy_result.attempts) = 4
        /\ \A i \in 1..Len(strategy_result.attempts) :
               /\ strategy_result.attempts[i].selector = FixedOrder[i].name
               /\ ~strategy_result.attempts[i].success
               /\ strategy_result.attempts[i].content_length = 0
        /\ pc = "dom_traversal" \/ Called("extract_with_dom_traversal")

\* No call faulted, the four strategies failed on the page, and the walk that
\* followed gave the content of the result.
AllStrategiesFailedWitness ==
    /\ Called("extract_with_strategies")
    /\ faulty = {}
    /\ strategy_result.content = None
    /\ Len(strategy_result.attempts) = 4
    /\ Called("extract_with_dom_traversal")
    /\ pc = "done"
    /\ result.success
    /\ result.extraction_method = "fallback"

\* The call has built the ContentResult it returns.
Returned == pc \in {"finally", "close", "restore", "done"} /\ ~result.raised

\* C12: every ContentResult that extract_content returns with success =
\* false, after the failure of every method as after a driver fault, has a
\* non-empty content that contains the url, a non-empty error_message, the
\* quality_score 0.0 and an extraction_time_ms.
FailedResultKeepsLink ==
    (Returned /\ ~result.success) =>
        /\ result.content # <<>>
        /\ Contains(result.content, url)
        /\ result.error_message \notin {"None", ""}
        /\ result.quality_score = <<0, 1>>
        /\ result.extraction_time_ms.set

\* A fault of the switch to the new tab ended the call for a url that is
\* not empty, and the result carries the text of the fault.
FailedResultAfterFaultWitness ==
    /\ pc = "done"
    /\ ~result.raised
    /\ ~result.success
    /\ url # <<>>
    /\ error = "switch_to.window"
    /\ result.error_message = error
    /\ Contains(result.content, url)

\* C13: the debug_info of every ContentResult that extract_content returns
\* holds in selector_attempts the attempt trail of the strategies tried
\* during the call, one entry per strategy when every strategy failed.
ResultHoldsAttemptTrail ==
    Returned =>
        result.debug_info.selector_attempts =
            IF Called("extract_with_strategies") THEN strategy_result.attempts
            ELSE <<>>

\* The steps of one extraction, in the order of the body of extract_content.
ExtractionOrder ==
    << "window.open", "wait_for_complete_loading", "wait_for_iframe_and_switch",
       "extract_with_strategies", "validate_content", "extract_with_dom_traversal",
       "extract_with_refresh_retry" >>

Rank(name) == CHOOSE k \in 1..Len(ExtractionOrder) : ExtractionOrder[k] = name

IsExtractionStep(name) == name \in Range(ExtractionOrder)

IsNotValidation(name) == name # "validate_content"

\* The steps of the extraction that the call has made, in order.
ExtractionSteps == SelectSeq(steps, IsExtractionStep)

LastExtractionStep == ExtractionSteps[Len(ExtractionSteps)]

\* The strategies gave no content: None or the empty string.
NoStrategyContent == strategy_result.content \in {None, <<>>}

\* The call is about to build the failure result of lines 320-328, or has
\* returned it.
AtFailureResult ==
    \/ pc = "fail"
    \/ Returned /\ error = "None" /\ ~result.success

\* C22: within one extract_content call the steps occur in the order open
\* tab, readiness wait, iframe switch, strategy chain, validation, last-resort
\* walk, refresh-and-retry, failure result, each at most once but for the
\* validation, which follows the strategy chain or a walk.  The walk runs
\* only when the strategy chain gave no content or its content failed the
\* validation, and the strategy chain is not run again.  The refresh-and-retry
\* runs at most once and only when the first walk returned nothing.  A walk
\* result counts only if it has more than 50 characters.
ExtractionStepOrder ==
    LET tried == ExtractionSteps
        others == SelectSeq(tried, IsNotValidation)
    IN  /\ \A i, j \in 1..Len(others) : i < j => Rank(others[i]) < Rank(others[j])
        /\ \A k \in 1..Len(others) : k <= 4 => others[k] = ExtractionOrder[k]
        /\ \A k \in 1..Len(tried) :
               tried[k] = "validate_content" =>
                   /\ k > 1
                   /\ tried[k - 1] \in {"extract_with_strategies",
                                        "extract_with_dom_traversal",
                                        "extract_with_refresh_retry"}
        /\ pc = "dom_traversal" =>
               \/ LastExtractionStep = "extract_with_strategies" /\ NoStrategyContent
               \/ /\ LastExtractionStep = "validate_content"
                  /\ ~NoStrategyContent
                  /\ ~Validation(strategy_result.content).is_valid
        /\ Called("extract_with_dom_traversal") =>
               \/ NoStrategyContent
               \/ ~Validation(strategy_result.content).is_valid
        /\ pc = "refresh_retry" =>
               /\ LastExtractionStep = "extract_with_dom_traversal"
               /\ fallback_content = None
        /\ fallback_content # None => Len(fallback_content) > 50
        /\ AtFailureResult =>
               /\ Called("extract_with_dom_traversal")
               /\ fallback_content = None => Called("extract_with_refresh_retry")
               /\ fallback_content # None => ~Validation(fallback_content).is_valid

\* The content of the strategies failed the validation, the walk found
\* nothing, the refresh-and-retry neither, and the call returned the failure
\* result.
ExtractionStepOrderWitness ==
    /\ pc = "done"
    /\ faults_left = MaxFaults
    /\ ~NoStrategyContent
    /\ ~Validation(strategy_result.content).is_valid
    /\ ExtractionSteps = ExtractionOrder
    /\ fallback_content = None
    /\ ~result.success
    /\ result.error_message = AllMethodsFailed

Captured == Called("save_debug_screenshot")

\* Every method of the extraction failed: the strategies gave nothing valid,
\* and neither did the walk nor the refresh-and-retry.
TotalFailure ==
    /\ error = "None"
    /\ NoStrategyContent \/ ~Validation(strategy_result.content).is_valid
    /\ Called("extract_with_dom_traversal")
    /\ fallback_content = None \/ ~Validation(fallback_content).is_valid

\* C33: extract_content captures a debug screenshot only on a failure path,
\* the failure of every method or a driver fault that reached the handler,
\* and only when enable_debug_screenshot is set; a call that returns success =
\* true has captured none; and when the capture itself fails, the call still
\* returns a ContentResult with success = false and raises nothing.
ScreenshotOnlyOnFailure ==
    /\ Captured =>
           /\ enable_debug_screenshot
           /\ Returned
           /\ ~result.success
           /\ TotalFailure \/ error # "None"
           /\ result.debug_info.screenshot_path = debug_info.screenshot_path
           /\ Len(SelectSeq(steps, LAMBDA name : name = "save_debug_screenshot")) = 1
    /\ (Returned /\ result.success) =>
           /\ ~Captured
           /\ result.debug_info.screenshot_path = "None"
    /\ (Captured /\ debug_info.screenshot_path = "None") =>
           /\ ~result.raised
           /\ ~result.success
           /\ result.error_message = IF error = "None" THEN AllMethodsFailed ELSE error

\* With the screenshots enabled, every method failed without a fault, the
\* capture of the screenshot then faulted, and the call returned the failure
\* result without a screenshot path.
ScreenshotOnlyOnFailureWitness ==
    /\ pc = "done"
    /\ enable_debug_screenshot
    /\ Captured
    /\ TotalFailure
    /\ faults_left = MaxFaults - 1
    /\ debug_info.screenshot_path = "None"
    /\ ~result.raised
    /\ ~result.success
    /\ result.error_message = AllMethodsFailed

\* C35: the page info of debug_info is that of the target page:
\* collect_page_info runs after the url was opened in the new tab and the
\* driver was switched to it, not on the window of the caller.
PageInfoOfTargetPage ==
    \A k \in 1..Len(steps) :
        steps[k] = "collect_page_info" =>
            \E i, j \in 1..(k - 1) :
                /\ i < j
                /\ steps[i] = "window.open"
                /\ steps[j] = "switch_to.window"

\* One call of extract_content in which every step that is due is taken:
\* each driver call and each wait returns or raises, and the thread goes on.
FairSpec == Init /\ [][Next]_vars /\ WF_vars(Next)

\* The positions of extract_content in the order of its body.
PcOrder ==
    << "start", "collect", "open", "switch", "loading", "iframe", "strategies",
       "validate", "dom_traversal", "refresh_retry", "fallback_validate", "fail",
       "except", "finally", "close", "restore", "done" >>

Position(at) == CHOOSE k \in 1..Len(PcOrder) : PcOrder[k] = at

\* How often the call has made this step.
Times(name) == Len(SelectSeq(steps, LAMBDA step : step = name))

\* Every step was made once at most; validate_content follows the strategies
\* and a walk, switch_to.window opens and ends the call.  The strategies were
\* asked once each.
StepsAtMostOnce ==
    /\ \A k \in 1..Len(steps) :
           Times(steps[k]) <=
               IF steps[k] \in {"validate_content", "switch_to.window"} THEN 2 ELSE 1
    /\ Len(strategy_result.attempts) <= Len(BuiltInStrategies)
    /\ \A i, j \in 1..Len(strategy_result.attempts) :
           i # j => strategy_result.attempts[i].selector
                        # strategy_result.attempts[j].selector

ValidationsMade ==
    (IF ~NoStrategyContent /\ Times("validate_content") >= 1
     THEN {Validation(strategy_result.content)} ELSE {})
    \cup (IF /\ fallback_content # None
              /\ Times("validate_content") >= (IF NoStrategyContent THEN 1 ELSE 2)
           THEN {Validation(fallback_content)} ELSE {})

\* C38: extract_content returns success = true only with the cleaned_content
\* and the quality_score of a validate_content call of the same extraction
\* that returned is_valid = true; that content is not empty and the score is
\* in [0, 1], so that the construction of the success ContentResult never
\* raises, under every configuration of the extractor.
SuccessOnlyValidated ==
    /\ result.success =>
           \E validation \in ValidationsMade :
               /\ ~validation.raised
               /\ validation.is_valid
               /\ result.content = validation.cleaned_content
               /\ result.quality_score = validation.quality_score
               /\ result.content # <<>>
               /\ QualityScoreIsValid(Number(result.quality_score))
    /\ error # "ValueError"

\* A call under a configuration other than the defaults returned success
\* after its second validation, with a content that the validator cut.
SuccessOnlyValidatedWitness ==
    /\ pc = "done"
    /\ result.success
    /\ vConfig # DefaultConfig
    /\ Times("validate_content") = 2
    /\ result.content # fallback_content
    /\ result.content = Validation(fallback_content).cleaned_content

(***************************************************************************)
(* A SelectorStrategyManager that is given custom strategies and then      *)
(* asked for the content of a document.                                    *)
(***************************************************************************)
MaxCustomStrategies == 2

\* A strategy for the element no built-in strategy selects, one that shares
\* a selector with the general editor, and one built without selectors.
CustomStrategies ==
    { CustomCafeStrategy("cafeA", <<"div.article">>),
      CustomCafeStrategy("cafeB", <<".my-custom-content", "#content-area">>),
      CustomCafeStrategy("cafeC", None) }

InitCustomStrategies ==
    /\ pc = "manager"
    /\ url = <<>>
    /\ page \in DocumentsOf(ExtractorSelectors, ExtractorTexts, MaxPageElements)
    /\ faults_left = MaxFaults
    /\ faulty = {}
    /\ strategy_result = NoStrategyResult
    /\ window_handles = <<>>
    /\ current_window = 0
    /\ before = NoWindows
    /\ in_frame = FALSE
    /\ enable_debug_screenshot = FALSE
    /\ original_window = 0
    /\ debug_info = NoDebugInfo
    /\ fallback_content = None
    /\ error = "None"
    /\ result = NoContentResult
    /\ steps = <<>>
    /\ loading_complete = "None"
    /\ iframe_switched = "None"
    /\ ValidatorOff
    /\ ResultOff
    /\ ConfigOff
    /\ ManagerOff
    /\ PreloadOff
    /\ SelectorsOff
    /\ PipelinesOff

AddCustomStrategy ==
    /\ pc = "manager"
    /\ Len(mAdded) < MaxCustomStrategies
    /\ \E strategy \in CustomStrategies :
           /\ mStrategies' = add_custom_strategy(mStrategies, strategy)
           /\ mAdded' = Append(mAdded, strategy)
    /\ UNCHANGED <<validatorVars, resultVars, extractorVars, configVars, preloadVars, selectorVars, pipelineVars>>

\* One call of extract_with_strategies of the manager as it is then, the
\* driver faulting where it chooses.
CallManagerExtract ==
    /\ pc = "manager"
    /\ \E calls \in FaultSets(page, faults_left) :
           /\ faulty' = calls
           /\ faults_left' = faults_left - Cardinality(calls)
           /\ strategy_result' = manager_extract_with_strategies(mStrategies, page, calls)
    /\ pc' = "managed"
    /\ steps' = Append(steps, "extract_with_strategies")
    /\ UNCHANGED <<window_handles, current_window, before, url, in_frame, page,
                   enable_debug_screenshot, original_window, debug_info,
                   fallback_content, error, result, validatorVars, resultVars,
                   configVars, managerVars, preloadVars, selectorVars, pipelineVars, waited>>

NextCustomStrategies == AddCustomStrategy \/ CallManagerExtract

SpecCustomStrategies == InitCustomStrategies /\ [][NextCustomStrategies]_vars

Reverse(seq) == [i \in 1..Len(seq) |-> seq[Len(seq) + 1 - i]]

\* C19: after add_custom_strategy the manager asks the custom strategies
\* first, the most recently added before the ones added earlier, and then
\* the strategies it had before in the order they had; the first strategy
\* of this order that yields gives the result.
CustomStrategiesFirst ==
    LET expected == Reverse(mAdded) \o FixedOrder
        attempts == strategy_result.attempts
        tried == Len(attempts)
    IN  /\ mStrategies = expected
        /\ pc = "managed" =>
               /\ tried \in 1..Len(expected)
               /\ \A i \in 1..tried : attempts[i].selector = expected[i].name
               /\ \A i \in 1..(tried - 1) : ~attempts[i].success
               /\ strategy_result.content = None => tried = Len(expected)
               /\ strategy_result.content # None =>
                      /\ attempts[tried].success
                      /\ strategy_result.strategy = expected[tried].name

\* Two different custom strategies were added, the document holds a
\* SmartEditor 3.0 container and a container of the strategy added last, and
\* that strategy gave the result at the first attempt.
CustomStrategiesFirstWitness ==
    /\ pc = "managed"
    /\ faulty = {}
    /\ Len(mAdded) = 2
    /\ mAdded[1] # mAdded[2]
    /\ \E i, j \in 1..Len(page) :
           /\ page[i].selector = ".se-main-container"
           /\ page[j].selector = "#content-area"
    /\ Len(strategy_result.attempts) = 1
    /\ strategy_result.strategy = mAdded[2].name
    /\ strategy_result.extraction_method = "fallback"

\* C24: the attempt trail that extract_with_strategies returns is a prefix of
\* the order of the strategies with exactly one SelectorAttempt per strategy
\* tried; at most one attempt has success = true, and it is the last; the
\* content is not None exactly when the last attempt succeeded; a strategy
\* that raises is recorded as a failed attempt with the message of the
\* exception, and the strategy after it is still tried.
AttemptTrail ==
    pc = "managed" =>
        LET attempts == strategy_result.attempts
            tried == Len(attempts)
        IN  /\ tried <= Len(mStrategies)
            /\ \A i \in 1..tried : attempts[i].selector = mStrategies[i].name
            /\ \A i \in 1..tried : attempts[i].success => i = tried
            /\ strategy_result.content # None <=> (tried > 0 /\ attempts[tried].success)
            /\ tried < Len(mStrategies) => attempts[tried].success
            /\ \A i \in 1..tried :
                   IF SelectorsRaise(mStrategies[i])
                   THEN /\ ~attempts[i].success
                        /\ attempts[i].content_length = 0
                        /\ attempts[i].error_message = NotIterable
                   ELSE attempts[i].error_message = "None"

\* The strategy added last raised, the next strategy was tried and failed,
\* and a third one gave the content.
AttemptTrailWitness ==
    /\ pc = "managed"
    /\ faulty = {}
    /\ Len(mStrategies) > 3
    /\ SelectorsRaise(mStrategies[1])
    /\ Len(strategy_result.attempts) = 3
    /\ strategy_result.attempts[1].error_message = NotIterable
    /\ ~strategy_result.attempts[2].success
    /\ strategy_result.attempts[3].success
    /\ strategy_result.content # None

(***************************************************************************)
(* One call of extract_with_selectors of a built-in strategy, round by     *)
(* round.  sCalls records each driver call the strategy makes: the         *)
(* selector it asks find_elements for, or the script, and how it ended.    *)
(***************************************************************************)
\* The containers of the strategies: the first selector of SmartEditor 3.0,
\* the second of SmartEditor 2.0, one that SmartEditor 2.0 and the general
\* editor share, the first of the general and of the legacy editor.
SelectorContainers ==
    { ".se-main-container", "#postViewArea", ".view-content", "#content-area",
      "#tbody" }

\* An acceptable line and a text with an invalid phrase.
SelectorTexts == { GoodLine, DeniedLine }

Script == "execute_script"

\* The record of a driver call: visible is whether the wait for the
\* visibility of the element ended without TimeoutException.
DriverCall(call, outcome, visible) ==
    [call |-> call, outcome |-> outcome, visible |-> visible]

InitSelectors ==
    /\ sStrategy \in Range(BuiltInStrategies)
    /\ sDocument \in DocumentsOf(SelectorContainers, SelectorTexts, MaxPageElements)
    /\ sPc = "selectors"
    /\ sIndex = 1
    /\ sFaultsLeft = MaxFaults
    /\ sCalls = <<>>
    /\ sReturn = NoStrategyReturn
    /\ ValidatorOff
    /\ ResultOff
    /\ ExtractorOff
    /\ ConfigOff
    /\ ManagerOff
    /\ PreloadOff
    /\ PipelinesOff

\* An exception in a round that ends the call with the exception.
ContinuesUnlessException(outcome) ==
    IF outcome = "exception"
    THEN /\ sPc' = "returned"
         /\ sReturn' = [raised |-> TRUE, content |-> None]
         /\ UNCHANGED sIndex
    ELSE /\ sIndex' = sIndex + 1
         /\ UNCHANGED <<sPc, sReturn>>

\* Lines 66-68 and 94-107: a round that did not accept its selector ends
\* with continue or falls off the end of the loop body, and the loop goes on
\* with the next selector.
Continues(outcome) ==
    /\ sIndex' = sIndex + 1
    /\ UNCHANGED <<sPc, sReturn>>

\* Lines 60-107: one round of the selector loop.  A fault of find_elements
\* or of the wait is caught at lines 99-107; TimeoutException of the wait is
\* caught at line 77 and the text of the element is read all the same.
QuerySelector ==
    /\ sPc = "selectors"
    /\ sIndex <= Len(sStrategy.selectors)
    /\ LET selector == sStrategy.selectors[sIndex]
           elements == find_elements(sDocument, selector)
           content == SelectorContent(sDocument, selector)
       IN  \/ /\ sFaultsLeft > 0
              /\ sFaultsLeft' = sFaultsLeft - 1
              /\ sCalls' = Append(sCalls, DriverCall(selector, "exception", FALSE))
              /\ Continues("exception")
           \/ /\ elements = <<>>
              /\ sCalls' = Append(sCalls, DriverCall(selector, "no_element", FALSE))
              /\ Continues("no_element")
              /\ UNCHANGED sFaultsLeft
           \/ /\ elements # <<>>
              /\ content = None
              /\ \E visible \in BOOLEAN :
                     sCalls' = Append(sCalls, DriverCall(selector, "rejected", visible))
              /\ Continues("rejected")
              /\ UNCHANGED sFaultsLeft
           \/ /\ elements # <<>>
              /\ content # None
              /\ \E visible \in BOOLEAN :
                     sCalls' = Append(sCalls, DriverCall(selector, "accepted", visible))
              /\ sReturn' = [raised |-> FALSE, content |-> content]
              /\ sPc' = "returned"
              /\ UNCHANGED <<sIndex, sFaultsLeft>>
    /\ UNCHANGED <<sStrategy, sDocument>>
    /\ UNCHANGED notSelectorVars

\* Lines 109-110 for the general and the legacy editor, which do not
\* override extract_with_selectors: return None.
ReturnNone ==
    /\ sPc = "selectors"
    /\ sIndex > Len(sStrategy.selectors)
    /\ sStrategy.javascript = "none"
    /\ sReturn' = [raised |-> FALSE, content |-> None]
    /\ sPc' = "returned"
    /\ UNCHANGED <<sStrategy, sDocument, sIndex, sFaultsLeft, sCalls>>
    /\ UNCHANGED notSelectorVars

\* Lines 199-245 and 272-309: the base method returned None and the
\* strategy evaluates its script; the fault of the script is caught.
ScriptFallback ==
    /\ sPc = "selectors"
    /\ sIndex > Len(sStrategy.selectors)
    /\ sStrategy.javascript # "none"
    /\ \/ /\ sFaultsLeft > 0
          /\ sFaultsLeft' = sFaultsLeft - 1
          /\ sCalls' = Append(sCalls, DriverCall(Script, "exception", FALSE))
          /\ sReturn' = [raised |-> FALSE, content |-> None]
       \/ /\ LET content == JavascriptContent(sStrategy, sDocument)
             IN  /\ sCalls' = Append(sCalls,
                        DriverCall(Script,
                                   IF content # None THEN "accepted" ELSE "rejected",
                                   FALSE))
                 /\ sReturn' = [raised |-> FALSE, content |-> content]
          /\ UNCHANGED sFaultsLeft
    /\ sPc' = "returned"
    /\ UNCHANGED <<sStrategy, sDocument, sIndex>>
    /\ UNCHANGED notSelectorVars

NextSelectors == QuerySelector \/ ReturnNone \/ ScriptFallback

SpecSelectors == InitSelectors /\ [][NextSelectors]_vars

IsQuery(driver_call) == driver_call.call # Script

\* The calls of find_elements so far.
Queries == SelectSeq(sCalls, IsQuery)

Accepted(driver_call) == driver_call.outcome = "accepted"

\* C26: within one strategy the selectors are tried in the order of the list;
\* a selector without an element, a timeout of the wait for the visibility
\* and an exception in the round never end the call: the round after them
\* takes the next selector; once a selector is accepted no later selector is
\* asked for; and when none is accepted the strategy returns None, or what
\* its script gives, and does not raise.
SelectorsInOrder ==
    /\ Len(Queries) <= Len(sStrategy.selectors)
    /\ \A k \in 1..Len(Queries) : Queries[k].call = sStrategy.selectors[k]
    /\ \A k \in 1..(Len(Queries) - 1) : ~Accepted(Queries[k])
    /\ sPc = "returned" =>
           /\ ~sReturn.raised
           /\ \/ Queries # <<>> /\ Accepted(Queries[Len(Queries)])
              \/ Len(Queries) = Len(sStrategy.selectors)
           /\ (\A k \in 1..Len(Queries) : ~Accepted(Queries[k])) =>
                  IF sStrategy.javascript = "none" THEN sReturn.content = None
                  ELSE sCalls[Len(sCalls)].call = Script
           /\ (Queries # <<>> /\ Accepted(Queries[Len(Queries)])) =>
                  /\ sReturn.content =
                         SelectorContent(sDocument, Queries[Len(Queries)].call)
                  /\ sReturn.content # None
                  /\ Len(sCalls) = Len(Queries)

\* A round raised, a later round found an element that never became visible
\* and rejected its text, and a round after that accepted its selector,
\* which is not the last of the list.
SelectorsInOrderWitness ==
    /\ sPc = "returned"
    /\ sReturn.content # None
    /\ Len(Queries) < Len(sStrategy.selectors)
    /\ \E i, j, k \in 1..Len(Queries) :
           /\ i < j
           /\ Queries[i].outcome = "exception"
           /\ Queries[j].outcome = "rejected"
           /\ ~Queries[j].visible
           /\ Queries[k].outcome = "no_element"
    /\ Accepted(Queries[Len(Queries)])

\* C27: the script is evaluated only by the SmartEditor 3.0 and the
\* SmartEditor 2.0 strategy, once, and only after every selector of the
\* strategy was asked for without one being accepted; the general and the
\* legacy editor never evaluate it; an error of the script makes the
\* strategy return None and not raise.
ScriptOnlyAfterSelectors ==
    /\ \A k \in 1..Len(sCalls) :
           sCalls[k].call = Script =>
               /\ sStrategy.name \in {"SmartEditor 3.0", "SmartEditor 2.0"}
               /\ k = Len(sStrategy.selectors) + 1
               /\ k = Len(sCalls)
               /\ \A j \in 1..(k - 1) :
                      /\ sCalls[j].call = sStrategy.selectors[j]
                      /\ ~Accepted(sCalls[j])
               /\ sPc = "returned"
               /\ ~sReturn.raised
               /\ sCalls[k].outcome = "exception" => sReturn.content = None
               /\ sCalls[k].outcome = "rejected" => sReturn.content = None
    /\ (sPc = "returned" /\ sReturn.content = None
            /\ sStrategy.name \in {"SmartEditor 3.0", "SmartEditor 2.0"}) =>
           sCalls[Len(sCalls)].call = Script

\* The seven selectors of SmartEditor 3.0 were asked for, the container held
\* a text that was rejected, and the script that followed raised.
ScriptOnlyAfterSelectorsWitness ==
    /\ sPc = "returned"
    /\ sStrategy.name = "SmartEditor 3.0"
    /\ Len(sCalls) = 8
    /\ sCalls[1].outcome = "rejected"
    /\ sCalls[8] = DriverCall(Script, "exception", FALSE)
    /\ sReturn = [raised |-> FALSE, content |-> None]

(***************************************************************************)
(* PreloadingManager: one call of a method against a driver.  A wait of    *)
(* WebDriverWait ends with its condition met, with a TimeoutException, or  *)
(* with the exception of a driver fault; a script ends with its value or   *)
(* with a fault.  The sizes and the scroll offset are those of the         *)
(* browsing context the driver is focused on.                              *)
(***************************************************************************)
MaxPreloadFaults == 1

MaxAttempts == 2

MaxLazyImages == 1

\* lazy_images[:10]
LazyImageLimit == 10

\* timeout: int = 30
DefaultTimeout == 30

\* scroll_pause_time: float = 2.0, in milliseconds
ScrollPauseMs == 2000

\* The argument timeout of wait_for_complete_loading: the default, the 10 of
\* wait_for_iframe_and_switch, and a timeout no longer than the pause.
LoadingTimeouts == {3, 10, DefaultTimeout}

PreloadMethods ==
    { "wait_for_complete_loading", "trigger_lazy_loading",
      "wait_for_iframe_and_switch", "enhanced_wait_for_content" }

\* The first position of a method.
Entry(method) ==
    CASE method = "wait_for_complete_loading" -> "ready_state"
      [] method = "trigger_lazy_loading" -> "scroll_info"
      [] method = "wait_for_iframe_and_switch" -> "frame_switch"
      [] method = "enhanced_wait_for_content" -> "attempt"
      [] method = "check_dynamic_content_loaded" -> "check"

\* A document as tall and as wide as the window or larger, with lazy images.
Geometries ==
    [bodyHeight : {2, 4, 8}, windowHeight : {2}, bodyWidth : {2, 4}, windowWidth : {2},
     images : 0..MaxLazyImages]

MaxOffsetX(geometry) ==
    IF geometry.bodyWidth > geometry.windowWidth
    THEN geometry.bodyWidth - geometry.windowWidth ELSE 0

MaxOffsetY(geometry) ==
    IF geometry.bodyHeight > geometry.windowHeight
    THEN geometry.bodyHeight - geometry.windowHeight ELSE 0

Clamp(n, most) == IF n < 0 THEN 0 ELSE IF n > most THEN most ELSE n

\* window.scrollTo(x, y): the browser keeps the offset inside the document.
ScrollTo(geometry, x, y) ==
    <<Clamp(x, MaxOffsetX(geometry)), Clamp(y, MaxOffsetY(geometry))>>

pArgs == <<pOp, pLazy, pMaxAttempts, pGeometry>>

pWaits == <<pSwitch, pLoading>>

pScrolls == <<pScroll, pEntry, pInfo, pIndex>>

pTimes == <<pTimeout, pElapsed>>

pRest == <<pArgs, pBackoffs>>

\* The record of a call of wait_for_complete_loading or trigger_lazy_loading
\* that returned is dropped when its caller goes on.
CalleeDropped ==
    /\ pLoading' = NoLoading
    /\ pElapsed' = 0
    /\ pSleeps' = <<>>
    /\ pScrolled' = <<>>

notPreloadVars ==
    <<validatorVars, resultVars, extractorVars, configVars, managerVars, selectorVars,
      pipelineVars>>

InitPreload ==
    /\ pOp \in PreloadMethods
    /\ pPc = Entry(pOp)
    /\ pStack = <<>>
    /\ pReturn = "unset"
    /\ pLog = <<>>
    /\ pLazy \in BOOLEAN
    /\ pMaxAttempts \in IF pOp = "enhanced_wait_for_content"
                        THEN (0 - 1)..MaxAttempts ELSE {0}
    /\ pAttempt = 0
    /\ pFaultsLeft = MaxPreloadFaults
    /\ pFrame = FALSE
    /\ pSwitch = "none"
    /\ pLoading = NoLoading
    /\ pGeometry \in Geometries
    /\ pScroll \in {0, MaxOffsetX(pGeometry)} \X {0, MaxOffsetY(pGeometry)}
    /\ pEntry = pScroll
    /\ pInfo = NoScrollInfo
    /\ pIndex = 0
    /\ pTimeout \in IF pOp = "wait_for_complete_loading"
                    THEN LoadingTimeouts ELSE {DefaultTimeout}
    /\ pElapsed = 0
    /\ pSleeps = <<>>
    /\ pScrolled = <<>>
    /\ pBackoffs = <<>>
    /\ ValidatorOff
    /\ ResultOff
    /\ ExtractorOff
    /\ ConfigOff
    /\ ManagerOff
    /\ SelectorsOff
    /\ PipelinesOff

NoFault == UNCHANGED pFaultsLeft

DriverFault == pFaultsLeft > 0 /\ pFaultsLeft' = pFaultsLeft - 1

\* return value, from the method that runs: to the caller, or out of the call.
\* The trail of returns keeps whether the driver was inside the frame.
ReturnsIn(method, value, frame) ==
    /\ pReturn' = value
    /\ pLog' = Append(pLog, [method |-> method, returned |-> value, in_frame |-> frame])
    /\ IF pStack = <<>>
       THEN pPc' = "done" /\ UNCHANGED pStack
       ELSE pPc' = Head(pStack) /\ pStack' = Tail(pStack)

Returns(method, value) == ReturnsIn(method, value, pFrame)

\* self.method(...), the caller going on at the position after.
Calls(method, after) ==
    /\ pPc' = Entry(method)
    /\ pStack' = <<after>> \o pStack
    /\ UNCHANGED <<pReturn, pLog>>

Goto(position) == pPc' = position /\ UNCHANGED <<pStack, pReturn, pLog>>

(***************************************************************************)
(* wait_for_complete_loading: the ready-state wait, the waits of the three *)
(* helpers, the pause.  A helper catches TimeoutException only.  Time is   *)
(* counted in seconds from start_time: a wait of WebDriverWait(timeout)    *)
(* that is met or hit by a fault ends at once or at its limit, a wait that *)
(* times out ends at its limit.                                            *)
(***************************************************************************)
LoadingWaits == { "jquery", "libraries", "naver_cafe_scripts", "network_idle" }

Smaller(a, b) == IF a < b THEN a ELSE b

Larger(a, b) == IF a > b THEN a ELSE b

\* The timeout handed to the helper of a position: min(10, timeout//3), and
\* min(5, timeout//6) for the network idle wait.
Budget(position, timeout) ==
    IF position = "network_idle"
    THEN Smaller(5, timeout \div 6)
    ELSE Smaller(10, timeout \div 3)

\* How long a wait under a limit can take when it does not time out.
Durations(limit) == {0, limit}

\* time.sleep(3) if remaining_time > 3, else time.sleep(max(1, remaining_time))
SettleSleep(remaining_time) ==
    IF remaining_time > 3 THEN 3 ELSE Larger(1, remaining_time)

Sleep(by, ms) == pSleeps' = Append(pSleeps, [by |-> by, ms |-> ms])

\* Every wait after the ready-state wait, with a timeout that reaches the
\* handler of wait_for_complete_loading.
SubWaitPropagating(position, after_met, after_timeout) ==
    /\ \/ /\ Goto(after_met)
          /\ NoFault
          /\ \E d \in Durations(Budget(position, pTimeout)) : pElapsed' = pElapsed + d
          /\ UNCHANGED pLoading
       \/ /\ pLoading' = [pLoading EXCEPT !.timeouts = @ \cup {position}]
          /\ Returns("wait_for_complete_loading", "False")
          /\ NoFault
          /\ pElapsed' = pElapsed + Budget(position, pTimeout)
       \/ /\ DriverFault
          /\ pLoading' = [pLoading EXCEPT !.error = TRUE]
          /\ \E d \in Durations(Budget(position, pTimeout)) : pElapsed' = pElapsed + d
          /\ Returns("wait_for_complete_loading", "False")
    /\ UNCHANGED <<pRest, pAttempt, pFrame, pSwitch, pScrolls, pTimeout, pSleeps, pScrolled,
                   notPreloadVars>>

\* The wait at a position inside a helper: met, timed out (caught by the
\* helper, which returns False to a caller that ignores it), or a driver
\* fault (caught by wait_for_complete_loading alone).
SubWait(position, after_met, after_timeout) ==
    /\ \/ /\ Goto(after_met)
          /\ NoFault
          /\ \E d \in Durations(Budget(position, pTimeout)) : pElapsed' = pElapsed + d
          /\ UNCHANGED pLoading
       \/ /\ pLoading' = [pLoading EXCEPT !.timeouts = @ \cup {position}]
          /\ Goto(after_timeout)
          /\ NoFault
          /\ pElapsed' = pElapsed + Budget(position, pTimeout)
       \/ /\ DriverFault
          /\ pLoading' = [pLoading EXCEPT !.error = TRUE]
          /\ \E d \in Durations(Budget(position, pTimeout)) : pElapsed' = pElapsed + d
          /\ Returns("wait_for_complete_loading", "False")
    /\ UNCHANGED <<pRest, pAttempt, pFrame, pSwitch, pScrolls, pTimeout, pSleeps, pScrolled,
                   notPreloadVars>>

\* start_time = time.time() and the wait for document.readyState.
ReadyStateWait ==
    /\ pPc = "ready_state"
    /\ \/ /\ pLoading' = [ready |-> "met", error |-> FALSE, timeouts |-> {}]
          /\ Goto("jquery")
          /\ NoFault
          /\ pElapsed' \in Durations(pTimeout)
       \/ /\ pLoading' = [ready |-> "timeout", error |-> FALSE, timeouts |-> {}]
          /\ Returns("wait_for_complete_loading", "False")
          /\ NoFault
          /\ pElapsed' = pTimeout
       \/ /\ DriverFault
          /\ pLoading' = [ready |-> "fault", error |-> TRUE, timeouts |-> {}]
          /\ pElapsed' \in Durations(pTimeout)
          /\ Returns("wait_for_complete_loading", "False")
    /\ UNCHANGED <<pRest, pAttempt, pFrame, pSwitch, pScrolls, pTimeout, pSleeps, pScrolled,
                   notPreloadVars>>

JQueryWait ==
    /\ pPc = "jquery"
    /\ SubWait("jquery", "libraries", "naver_cafe_scripts")

LibrariesWait ==
    /\ pPc = "libraries"
    /\ SubWait("libraries", "naver_cafe_scripts", "naver_cafe_scripts")

NaverCafeScriptsWait ==
    /\ pPc = "naver_cafe_scripts"
    /\ SubWait("naver_cafe_scripts", "network_idle", "network_idle")

NetworkIdleWait ==
    /\ pPc = "network_idle"
    /\ SubWait("network_idle", "settle", "settle")

\* remaining_time, the sleep and return True
LoadingSettle ==
    /\ pPc = "settle"
    /\ Sleep("settle", 1000 * SettleSleep(pTimeout - pElapsed))
    /\ pElapsed' = pElapsed + SettleSleep(pTimeout - pElapsed)
    /\ Returns("wait_for_complete_loading", "True")
    /\ UNCHANGED <<pRest, pAttempt, pFaultsLeft, pFrame, pWaits, pScrolls, pTimeout, pScrolled,
                   notPreloadVars>>

(***************************************************************************)
(* trigger_lazy_loading: the scroll patterns, the image triggers, the      *)
(* restoring scrollTo.  The method catches every exception at its end;     *)
(* the two trigger helpers catch their own.                                *)
(***************************************************************************)
VerticalPositions(scroll_info) ==
    << 0,
       scroll_info.bodyHeight \div 4,
       scroll_info.bodyHeight \div 2,
       (scroll_info.bodyHeight * 3) \div 4,
       scroll_info.bodyHeight - scroll_info.windowHeight >>

HorizontalPositions(scroll_info) ==
    << 0,
       (scroll_info.bodyWidth - scroll_info.windowWidth) \div 2,
       scroll_info.bodyWidth - scroll_info.windowWidth >>

\* if scroll_info['bodyWidth'] > scroll_info['windowWidth']
AfterImages(scroll_info) ==
    IF scroll_info.bodyWidth > scroll_info.windowWidth THEN "horizontal" ELSE "restore"

\* The images the loop handles: lazy_images[:10].
ImagesHandled(geometry) ==
    IF geometry.images > LazyImageLimit THEN LazyImageLimit ELSE geometry.images

\* The position after image pIndex: the next image, or the end of the helper.
NextImage ==
    IF pIndex < ImagesHandled(pGeometry)
    THEN Goto("image_into_view") /\ pIndex' = pIndex + 1
    ELSE Goto(AfterImages(pInfo)) /\ pIndex' = 1

\* window.scrollTo(x, y) as the script asks for it, before the browser
\* keeps it inside the document.
Scrolled(pattern, x, y) ==
    pScrolled' = Append(pScrolled, [pattern |-> pattern, x |-> x, y |-> y])

ScrollInfo ==
    /\ pPc = "scroll_info"
    /\ pEntry' = pScroll
    /\ \/ /\ NoFault
          /\ pInfo' = [originalX |-> pScroll[1], originalY |-> pScroll[2],
                       bodyHeight |-> pGeometry.bodyHeight,
                       windowHeight |-> pGeometry.windowHeight,
                       bodyWidth |-> pGeometry.bodyWidth,
                       windowWidth |-> pGeometry.windowWidth]
          /\ pIndex' = 1
          /\ Goto(IF pGeometry.bodyHeight <= pGeometry.windowHeight
                  THEN "naver_cafe_lazy" ELSE "vertical")
       \/ /\ DriverFault
          /\ Returns("trigger_lazy_loading", "None")
          /\ UNCHANGED <<pInfo, pIndex>>
    /\ UNCHANGED <<pRest, pAttempt, pFrame, pWaits, pScroll, pTimes, pSleeps, pScrolled,
                   notPreloadVars>>

\* One round of the loop of _perform_vertical_scroll_pattern.
VerticalScroll ==
    /\ pPc = "vertical"
    /\ \/ /\ NoFault
          /\ pScroll' = ScrollTo(pGeometry, 0, VerticalPositions(pInfo)[pIndex])
          /\ Scrolled("vertical", 0, VerticalPositions(pInfo)[pIndex])
          /\ Sleep("vertical", ScrollPauseMs)
          /\ IF pIndex < Len(VerticalPositions(pInfo))
             THEN Goto("vertical") /\ pIndex' = pIndex + 1
             ELSE Goto("naver_cafe_lazy") /\ pIndex' = 1
       \/ /\ DriverFault
          /\ Returns("trigger_lazy_loading", "None")
          /\ UNCHANGED <<pScroll, pIndex, pSleeps, pScrolled>>
    /\ UNCHANGED <<pRest, pAttempt, pFrame, pWaits, pEntry, pInfo, pTimes, notPreloadVars>>

\* _trigger_naver_cafe_lazy_loading: one script, its fault caught.
NaverCafeLazyLoading ==
    /\ pPc = "naver_cafe_lazy"
    /\ NoFault \/ DriverFault
    /\ Goto("find_images")
    /\ UNCHANGED <<pRest, pAttempt, pFrame, pWaits, pScrolls, pTimes, pSleeps, pScrolled,
                   notPreloadVars>>

\* find_elements of _trigger_image_lazy_loading.
FindLazyImages ==
    /\ pPc = "find_images"
    /\ \/ /\ NoFault
          /\ IF pGeometry.images > 0
             THEN Goto("image_into_view")
             ELSE Goto(AfterImages(pInfo))
       \/ /\ DriverFault
          /\ Goto(AfterImages(pInfo))
    /\ pIndex' = 1
    /\ UNCHANGED <<pRest, pAttempt, pFrame, pWaits, pScroll, pEntry, pInfo, pTimes, pSleeps,
                   pScrolled, notPreloadVars>>

\* scrollIntoView of image pIndex: the offset moves to where the image is.
ImageIntoView ==
    /\ pPc = "image_into_view"
    /\ \/ /\ NoFault
          /\ \E y \in {0, MaxOffsetY(pGeometry)} : pScroll' = <<pScroll[1], y>>
          /\ Sleep("image", 500)
          /\ Goto("image_load")
          /\ UNCHANGED pIndex
       \/ /\ DriverFault
          /\ NextImage
          /\ UNCHANGED <<pScroll, pSleeps>>
    /\ UNCHANGED <<pRest, pAttempt, pFrame, pWaits, pEntry, pInfo, pTimes, pScrolled,
                   notPreloadVars>>

\* The script that sets img.src, its fault caught inside the loop.
ImageForceLoad ==
    /\ pPc = "image_load"
    /\ NoFault \/ DriverFault
    /\ NextImage
    /\ UNCHANGED <<pRest, pAttempt, pFrame, pWaits, pScroll, pEntry, pInfo, pTimes, pSleeps,
                   pScrolled, notPreloadVars>>

\* One round of the loop of _perform_horizontal_scroll_pattern.
HorizontalScroll ==
    /\ pPc = "horizontal"
    /\ \/ /\ NoFault
          /\ pScroll' = ScrollTo(pGeometry, HorizontalPositions(pInfo)[pIndex], pScroll[2])
          /\ Scrolled("horizontal", HorizontalPositions(pInfo)[pIndex], pScroll[2])
          /\ Sleep("horizontal", 1000)
          /\ IF pIndex < Len(HorizontalPositions(pInfo))
             THEN Goto("horizontal") /\ pIndex' = pIndex + 1
             ELSE Goto("restore") /\ pIndex' = 1
       \/ /\ DriverFault
          /\ Returns("trigger_lazy_loading", "None")
          /\ UNCHANGED <<pScroll, pIndex, pSleeps, pScrolled>>
    /\ UNCHANGED <<pRest, pAttempt, pFrame, pWaits, pEntry, pInfo, pTimes, notPreloadVars>>

\* window.scrollTo(originalX, originalY), the last driver call of the
\* method, and the two sleeps after it.
RestoreScroll ==
    /\ pPc = "restore"
    /\ \/ /\ NoFault
          /\ pScroll' = ScrollTo(pGeometry, pInfo.originalX, pInfo.originalY)
          /\ Scrolled("restore", pInfo.originalX, pInfo.originalY)
          /\ pSleeps' = pSleeps \o << [by |-> "restore", ms |-> 500],
                                     [by |-> "final", ms |-> 1000] >>
       \/ /\ DriverFault
          /\ UNCHANGED <<pScroll, pSleeps, pScrolled>>
    /\ Returns("trigger_lazy_loading", "None")
    /\ UNCHANGED <<pRest, pAttempt, pFrame, pWaits, pEntry, pInfo, pIndex, pTimes,
                   notPreloadVars>>

(***************************************************************************)
(* wait_for_iframe_and_switch, check_dynamic_content_loaded and            *)
(* enhanced_wait_for_content.                                              *)
(***************************************************************************)
\* A result after the switch that a failed wait of the trail turns to False.
SwitchedResultOfTrail(trail) ==
    IF \E k \in 1..Len(trail) : trail[k].returned = "False" THEN "False" ELSE "True"

\* return True, whatever the calls after the switch returned.
SwitchedResult(trail) == "True"

FrameSwitch ==
    /\ pPc = "frame_switch"
    /\ \/ /\ NoFault
          /\ pSwitch' = "switched"
          /\ pFrame' = TRUE
          /\ IF pLazy
             THEN /\ Calls("wait_for_complete_loading", "iframe_lazy")
                  /\ pTimeout' = 10
             ELSE /\ ReturnsIn("wait_for_iframe_and_switch", SwitchedResult(pLog), TRUE)
                  /\ UNCHANGED pTimeout
       \/ /\ NoFault
          /\ pSwitch' = "timeout"
          /\ Returns("wait_for_iframe_and_switch", "False")
          /\ UNCHANGED <<pFrame, pTimeout>>
       \/ /\ DriverFault
          /\ pSwitch' = "fault"
          /\ Returns("wait_for_iframe_and_switch", "False")
          /\ UNCHANGED <<pFrame, pTimeout>>
    /\ UNCHANGED <<pRest, pAttempt, pLoading, pScrolls, pElapsed, pSleeps, pScrolled,
                   notPreloadVars>>

\* self.trigger_lazy_loading() after the wait inside the frame.
IframeTriggerLazyLoading ==
    /\ pPc = "iframe_lazy"
    /\ Calls("trigger_lazy_loading", "iframe_return")
    /\ CalleeDropped
    /\ UNCHANGED <<pRest, pAttempt, pFaultsLeft, pFrame, pSwitch, pScrolls, pTimeout,
                   notPreloadVars>>

IframeReturn ==
    /\ pPc = "iframe_return"
    /\ Returns("wait_for_iframe_and_switch", SwitchedResult(pLog))
    /\ UNCHANGED <<pRest, pAttempt, pFaultsLeft, pFrame, pWaits, pScrolls, pTimes, pSleeps,
                   pScrolled, notPreloadVars>>

\* One script; its value decides, a fault gives False.
CheckDynamicContentLoaded ==
    /\ pPc = "check"
    /\ \/ /\ NoFault
          /\ \E loaded \in {"True", "False"} :
                Returns("check_dynamic_content_loaded", loaded)
       \/ /\ DriverFault
          /\ Returns("check_dynamic_content_loaded", "False")
    /\ UNCHANGED <<pRest, pAttempt, pFrame, pWaits, pScrolls, pTimes, pSleeps, pScrolled,
                   notPreloadVars>>

\* A loop that runs once more than range(max_attempts).
AttemptsLeftInclusive(attempt, max_attempts) == attempt <= max_attempts

\* for attempt in range(max_attempts), attempt the number of rounds begun.
AttemptsLeft(attempt, max_attempts) == attempt < max_attempts

EnhancedAttempt ==
    /\ pPc = "attempt"
    /\ IF AttemptsLeft(pAttempt, pMaxAttempts)
       THEN /\ pAttempt' = pAttempt + 1
            /\ Calls("wait_for_complete_loading", "after_loading")
            /\ pTimeout' = DefaultTimeout
       ELSE /\ Returns("enhanced_wait_for_content", "False")
            /\ UNCHANGED <<pAttempt, pTimeout>>
    /\ UNCHANGED <<pRest, pFaultsLeft, pFrame, pWaits, pScrolls, pElapsed, pSleeps, pScrolled,
                   notPreloadVars>>

\* if not self.wait_for_complete_loading(): continue, then the lazy
\* loading when configured, then the check.
EnhancedAfterLoading ==
    /\ pPc = "after_loading"
    /\ IF pReturn = "False"
       THEN Goto("attempt")
       ELSE IF pLazy
            THEN Calls("trigger_lazy_loading", "enhanced_check")
            ELSE Calls("check_dynamic_content_loaded", "after_check")
    /\ CalleeDropped
    /\ UNCHANGED <<pRest, pAttempt, pFaultsLeft, pFrame, pSwitch, pScrolls, pTimeout,
                   notPreloadVars>>

EnhancedCheck ==
    /\ pPc = "enhanced_check"
    /\ Calls("check_dynamic_content_loaded", "after_check")
    /\ CalleeDropped
    /\ UNCHANGED <<pRest, pAttempt, pFaultsLeft, pFrame, pSwitch, pScrolls, pTimeout,
                   notPreloadVars>>

\* if self.check_dynamic_content_loaded(): return True; else time.sleep(2)
\* if attempt < max_attempts - 1, attempt counted from 0, and the next round.
EnhancedAfterCheck ==
    /\ pPc = "after_check"
    /\ IF pReturn = "True"
       THEN Returns("enhanced_wait_for_content", "True") /\ UNCHANGED pBackoffs
       ELSE /\ Goto("attempt")
            /\ IF pAttempt - 1 < pMaxAttempts - 1
               THEN pBackoffs' = Append(pBackoffs, 2000)
               ELSE UNCHANGED pBackoffs
    /\ UNCHANGED <<pArgs, pAttempt, pFaultsLeft, pFrame, pWaits, pScrolls, pTimes, pSleeps,
                   pScrolled, notPreloadVars>>

NextPreload ==
    \/ ReadyStateWait
    \/ JQueryWait
    \/ LibrariesWait
    \/ NaverCafeScriptsWait
    \/ NetworkIdleWait
    \/ LoadingSettle
    \/ ScrollInfo
    \/ VerticalScroll
    \/ NaverCafeLazyLoading
    \/ FindLazyImages
    \/ ImageIntoView
    \/ ImageForceLoad
    \/ HorizontalScroll
    \/ RestoreScroll
    \/ FrameSwitch
    \/ IframeTriggerLazyLoading
    \/ IframeReturn
    \/ CheckDynamicContentLoaded
    \/ EnhancedAttempt
    \/ EnhancedAfterLoading
    \/ EnhancedCheck
    \/ EnhancedAfterCheck

SpecPreload == InitPreload /\ [][NextPreload]_vars

(***************************************************************************)
(* Properties of the PreloadingManager.                                    *)
(***************************************************************************)
LastReturn == pLog[Len(pLog)]

\* The returns of the calls the method made, the method's own return left out.
InnerReturns == SubSeq(pLog, 1, Len(pLog) - 1)

Finished(method) == pOp = method /\ pPc = "done"

\* The position right after wait_for_complete_loading returned.
LoadingReturned ==
    Finished("wait_for_complete_loading") \/ pPc \in {"iframe_lazy", "after_loading"}

\* The position right after trigger_lazy_loading returned.
LazyLoadingReturned ==
    Finished("trigger_lazy_loading") \/ pPc \in {"iframe_return", "enhanced_check"}

\* C14: wait_for_complete_loading ends with a return of True or False, never
\* with an exception: False when the ready-state wait timed out or a driver
\* error occurred, True whenever the ready-state wait was met and no driver
\* error occurred, whichever waits of the helpers timed out.
LoadingWaitResult ==
    LoadingReturned =>
        /\ LastReturn.method = "wait_for_complete_loading"
        /\ pReturn = LastReturn.returned
        /\ pReturn \in {"True", "False"}
        /\ pLoading.ready \in {"timeout", "fault"} => pReturn = "False"
        /\ pLoading.error => pReturn = "False"
        /\ (pLoading.ready = "met" /\ ~pLoading.error) => pReturn = "True"

\* The ready-state wait was met, every helper timed out (the libraries wait
\* is not reached after the timeout of the jQuery wait), and True returned.
LoadingWaitResultWitness ==
    /\ Finished("wait_for_complete_loading")
    /\ pLoading.ready = "met"
    /\ pLoading.timeouts = {"jquery", "naver_cafe_scripts", "network_idle"}
    /\ pReturn = "True"

NumberOfRounds == Cardinality({k \in 1..Len(pLog) : pLog[k].method = "wait_for_complete_loading"})

\* The checks of the call that returned True.
SuccessfulChecks ==
    {k \in 1..Len(InnerReturns) :
        /\ InnerReturns[k].method = "check_dynamic_content_loaded"
        /\ InnerReturns[k].returned = "True"}

\* The return of wait_for_complete_loading in the round of return k.
LoadingOfRound(k) ==
    LET loads == {j \in 1..k : pLog[j].method = "wait_for_complete_loading"}
    IN  pLog[CHOOSE j \in loads : \A other \in loads : other <= j].returned

\* C15: enhanced_wait_for_content(max_attempts) ends with a return, never an
\* exception, after at most max_attempts rounds; it returns True exactly when
\* a round had wait_for_complete_loading and check_dynamic_content_loaded
\* both succeed, that round being the last one made, and False exactly when
\* no round succeeded, max_attempts <= 0 included, all rounds then made.
EnhancedWaitResult ==
    Finished("enhanced_wait_for_content") =>
        /\ LastReturn.method = "enhanced_wait_for_content"
        /\ pReturn = LastReturn.returned
        /\ pReturn \in {"True", "False"}
        /\ NumberOfRounds <= (IF pMaxAttempts > 0 THEN pMaxAttempts ELSE 0)
        /\ pReturn = "True" <=> SuccessfulChecks # {}
        /\ SuccessfulChecks \subseteq {Len(InnerReturns)}
        /\ pReturn = "False" =>
              NumberOfRounds = (IF pMaxAttempts > 0 THEN pMaxAttempts ELSE 0)
        /\ \A k \in 1..Len(InnerReturns) :
              InnerReturns[k].method = "check_dynamic_content_loaded"
                  => LoadingOfRound(k) = "True"
        /\ pMaxAttempts <= 0 => InnerReturns = <<>>

\* True returned in the second round, after a first round whose wait failed.
EnhancedWaitResultWitness ==
    /\ Finished("enhanced_wait_for_content")
    /\ pReturn = "True"
    /\ NumberOfRounds = 2
    /\ pLog[1].returned = "False"

\* C16: wait_for_iframe_and_switch returns True exactly when the frame switch
\* succeeded, whatever the waits after it did, and False, with no exception,
\* on a timeout or a driver error of the switch; wait_for_complete_loading
\* and trigger_lazy_loading run inside the frame, in this order, exactly when
\* the switch succeeded and enable_lazy_loading_trigger is set.
IframeSwitchResult ==
    Finished("wait_for_iframe_and_switch") =>
        /\ LastReturn.method = "wait_for_iframe_and_switch"
        /\ pReturn = LastReturn.returned
        /\ pReturn \in {"True", "False"}
        /\ pReturn = "True" <=> pSwitch = "switched"
        /\ pReturn = "False" <=> pSwitch \in {"timeout", "fault"}
        /\ pFrame <=> pSwitch = "switched"
        /\ [k \in 1..Len(InnerReturns) |-> InnerReturns[k].method]
              = IF pSwitch = "switched" /\ pLazy
                THEN <<"wait_for_complete_loading", "trigger_lazy_loading">>
                ELSE <<>>
        /\ \A k \in 1..Len(InnerReturns) : InnerReturns[k].in_frame

\* The switch succeeded, the wait inside the frame failed, True returned.
IframeSwitchResultWitness ==
    /\ Finished("wait_for_iframe_and_switch")
    /\ pSwitch = "switched"
    /\ pLazy
    /\ Len(InnerReturns) = 2
    /\ InnerReturns[1].returned = "False"
    /\ pReturn = "True"

\* C17: when trigger_lazy_loading has returned, the scroll offset is the
\* offset at its entry.
LazyLoadingRestoresScroll ==
    LazyLoadingReturned =>
        /\ LastReturn.method = "trigger_lazy_loading"
        /\ pScroll = pEntry

\* C21: wait_for_complete_loading(timeout) has blocked for at most timeout
\* seconds when it returns, its waits and its sleep taken together.
LoadingWithinTimeout ==
    LoadingReturned => pElapsed <= pTimeout

\* C28: whenever wait_for_complete_loading returns True its one sleep was a
\* sleep of 3 seconds.
SettleIsThreeSeconds ==
    (LoadingReturned /\ pReturn = "True") =>
        pSleeps = << [by |-> "settle", ms |-> 3000] >>

\* C29: enhanced_wait_for_content sleeps 2 seconds between every two
\* consecutive rounds and not after the last: once less than the rounds made.
BackoffBetweenAttempts ==
    Finished("enhanced_wait_for_content") =>
        /\ Len(pBackoffs) = (IF NumberOfRounds > 0 THEN NumberOfRounds - 1 ELSE 0)
        /\ \A k \in 1..Len(pBackoffs) : pBackoffs[k] = 2000

IsVertical(scrolled) == scrolled.pattern = "vertical"

IsHorizontal(scrolled) == scrolled.pattern = "horizontal"

\* C30: a call of trigger_lazy_loading that met no driver fault, on a
\* document taller than the window, has scrolled to 5 vertical checkpoints
\* at 0, 1/4, 2/4, 3/4 and 4/4 of the scrollable height (to the pixel),
\* non-decreasing and inside the document, with a pause of scroll_pause_time
\* at each, and to 3 horizontal points exactly when the document is wider
\* than the window.
LazyScrollCheckpoints ==
    (/\ Finished("trigger_lazy_loading")
     /\ pFaultsLeft = MaxPreloadFaults
     /\ pGeometry.bodyHeight > pGeometry.windowHeight) =>
        LET vertical == SelectSeq(pScrolled, IsVertical)
            horizontal == SelectSeq(pScrolled, IsHorizontal)
            scrollable == MaxOffsetY(pGeometry)
        IN  /\ Len(vertical) = 5
            /\ \A k \in 1..Len(vertical) :
                  /\ 4 * vertical[k].y - (k - 1) * scrollable \in (0 - 3)..3
                  /\ vertical[k].y <= scrollable
                  /\ k > 1 => vertical[k - 1].y <= vertical[k].y
            /\ Cardinality({k \in 1..Len(pSleeps) :
                     pSleeps[k] = [by |-> "vertical", ms |-> ScrollPauseMs]}) = 5
            /\ Len(horizontal) = (IF pGeometry.bodyWidth > pGeometry.windowWidth THEN 3 ELSE 0)

(***************************************************************************)
(* Pipelines of one process, each with its own driver and                  *)
(* ContentExtractor, that end their extraction at the same time or not.    *)
(* The steps of one extraction are those of extract_content above; here a  *)
(* pipeline is its outcome and, after a failure, the steps of              *)
(* DebugCollector.save_debug_screenshot.  The clock and the directory of   *)
(* the screenshots are those of the process.                               *)
(***************************************************************************)
MaxPipelines == 2

MaxSeconds == 2

Pipelines == 1..MaxPipelines

InitPipelines ==
    /\ now = 0
    /\ screenshot_dir \in {"artifacts", "debug_screenshots"}
    /\ tPc = [t \in Pipelines |-> "extracting"]
    /\ filename_prefix = [t \in Pipelines |-> "None"]
    /\ filepath = [t \in Pipelines |-> None]
    /\ written = <<>>
    /\ ValidatorOff
    /\ ResultOff
    /\ ExtractorOff
    /\ ConfigOff
    /\ ManagerOff
    /\ PreloadOff
    /\ SelectorsOff

\* A second passes.
Tick ==
    /\ now < MaxSeconds
    /\ now' = now + 1
    /\ UNCHANGED <<screenshot_dir, tPc, filename_prefix, filepath, written, notPipelineVars>>

\* The extraction of a pipeline succeeds: it returns without a screenshot.
Succeed(t) ==
    /\ tPc[t] = "extracting"
    /\ tPc' = [tPc EXCEPT ![t] = "returned"]
    /\ UNCHANGED <<now, screenshot_dir, filename_prefix, filepath, written, notPipelineVars>>

\* The extraction of a pipeline fails with the screenshots enabled: every
\* method failed (line 313) or an exception reached the handler (line 338).
FailPipeline(t) ==
    /\ tPc[t] = "extracting"
    /\ \E prefix \in {"extraction_failed", "extraction_error"} :
           filename_prefix' = [filename_prefix EXCEPT ![t] = prefix]
    /\ tPc' = [tPc EXCEPT ![t] = "save_debug_screenshot"]
    /\ UNCHANGED <<now, screenshot_dir, filepath, written, notPipelineVars>>

\* strftime('%Y%m%d_%H%M%S'): the time of the clock in whole seconds.
Timestamp(time) == time

\* Lines 96-98: the path is the directory, the prefix and the timestamp.
Filepath(dir, prefix, timestamp) ==
    [dir |-> dir, filename_prefix |-> prefix, timestamp |-> timestamp]

BuildFilepath(t) ==
    /\ tPc[t] = "save_debug_screenshot"
    /\ filepath' = [filepath EXCEPT
                       ![t] = Filepath(screenshot_dir, filename_prefix[t], Timestamp(now))]
    /\ tPc' = [tPc EXCEPT ![t] = "save_screenshot"]
    /\ UNCHANGED <<now, screenshot_dir, filename_prefix, written, notPipelineVars>>

\* Lines 100-107: driver.save_screenshot(filepath) writes the file, or it
\* raises and save_debug_screenshot returns None.
SaveScreenshot(t) ==
    /\ tPc[t] = "save_screenshot"
    /\ \/ /\ written' = Append(written, [filepath |-> filepath[t], by |-> t])
          /\ UNCHANGED filepath
       \/ /\ filepath' = [filepath EXCEPT ![t] = None]
          /\ UNCHANGED written
    /\ tPc' = [tPc EXCEPT ![t] = "returned"]
    /\ UNCHANGED <<now, screenshot_dir, filename_prefix, notPipelineVars>>

NextPipelines ==
    \/ Tick
    \/ \E t \in Pipelines : Succeed(t)
    \/ \E t \in Pipelines : FailPipeline(t)
    \/ \E t \in Pipelines : BuildFilepath(t)
    \/ \E t \in Pipelines : SaveScreenshot(t)

SpecPipelines == InitPipelines /\ [][NextPipelines]_vars

\* C36: concurrent pipelines share no mutable state: in every interleaving
\* the screenshots of two pipelines are written to distinct file paths, so
\* no pipeline writes over the file of another.
ScreenshotPathsDistinct ==
    \A i, j \in 1..Len(written) :
        written[i].by # written[j].by => written[i].filepath # written[j].filepath

=============================================================================
